---- MODULE Spec2Model ----
(***************************************************************************)
(* Casper: the action capture/replay subsystem (casper-core/src/actions.rs)*)
(* and the request dispatcher of the daemon (casper-daemon/src/main.rs).   *)
(*                                                                         *)
(* Strings that the code only compares or copies are TLA+ strings; a       *)
(* sequence name, whose characters the code rewrites when it builds a file *)
(* name, is a sequence of one-character strings.  Option<T> is a sequence  *)
(* of length 0 or 1, Result<T, String> a pair tagged "Ok" or "Err".        *)
(***************************************************************************)
EXTENDS Integers, Sequences, FiniteSets, TLC

VARIABLES
    recorder,   \* ActionRecorder {current_sequence, is_recording, last_action_time}
    player,     \* ActionPlayer {current_sequence, current_index, is_playing}
    library,    \* ActionLibrary {sequences} (library_path is fixed)
    disk,       \* the library directory: does it exist, and its files
    now,        \* the monotonic clock (std::time::Instant), in ticks
    lock,       \* the Mutex<DaemonState>: None, or Some(connection holding it)
    conns,      \* one record per connection task of the daemon
    ret,        \* the last call made on the core API and what it returned
    session,    \* what the caller of the recorder saw since its last successful start
    run,        \* what the caller of the player saw since its last successful start
    announced   \* the names the daemon's clients were told are stored, and not deleted since

vars == <<recorder, player, library, disk, now, lock, conns, ret, session, run, announced>>

----------------------------------------------------------------------------
(* Bounds of the model *)

MaxTime == 5        \* the clock stops advancing at this tick
MaxActions == 3     \* a live recording holds at most this many actions
MaxLen == 2         \* sample sequences given to the player have 0..MaxLen actions
MaxLib == 1         \* the daemon's library holds at most this many sequences
MaxStored == 2      \* a library driven through its own API holds at most this many sequences
MaxLive == 1        \* a recording made through the daemon holds at most this many actions
MaxDaemonTime == 1  \* the daemon's clock stops advancing at this tick
RaceConns == 3      \* connections racing to start a recording
TicksPerMs == 2     \* clock resolution: ticks per millisecond

----------------------------------------------------------------------------
(* Option and Result *)

None == <<>>
Some(x) == <<x>>
IsSome(o) == Len(o) = 1
Unwrap(o) == o[1]
unwrap_or(o, d) == IF IsSome(o) THEN o[1] ELSE d

Ok(v) == <<"Ok", v>>
Err(e) == <<"Err", e>>
IsOk(r) == r[1] = "Ok"
IsErr(r) == r[1] = "Err"
Unit == "()"

(* The error strings of actions.rs *)
AlreadyRecording == "Already recording"
NotRecording == "Not currently recording"
NoSequenceToSave == "No sequence to save"
NoActiveSequence == "No active sequence"
NoSequenceLoaded == "No sequence loaded"

----------------------------------------------------------------------------
(* Action, ActionWithTimestamp, ActionSequence *)

MoveMouse(x, y) == <<"MoveMouse", x, y>>
ClickMouse(button) == <<"ClickMouse", button>>
TypeText(text) == <<"TypeText", text>>
PressKey(key) == <<"PressKey", key>>
Wait(ms) == <<"Wait", ms>>

ActionWithTimestamp(action, delay_ms) == [action |-> action, delay_ms |-> delay_ms]

ActionSequence_new(name, description, utc_now) ==
    [name |-> name, description |-> description, actions |-> <<>>,
     created_at |-> utc_now, tags |-> <<>>]

add_action_front(self, action, delay_ms) ==
    [self EXCEPT !.actions = <<ActionWithTimestamp(action, delay_ms)>> \o @]

add_action(self, action, delay_ms) ==
    [self EXCEPT !.actions = Append(@, ActionWithTimestamp(action, delay_ms))]

Contains(seq, x) == \E i \in DOMAIN seq : seq[i] = x

add_tag_unchecked(self, tag) == [self EXCEPT !.tags = Append(@, tag)]

add_tag(self, tag) ==
    IF ~Contains(self.tags, tag) THEN [self EXCEPT !.tags = Append(@, tag)] ELSE self

----------------------------------------------------------------------------
(* The monotonic clock.  Duration::as_millis truncates to whole milliseconds. *)

as_millis(ticks) == ticks \div TicksPerMs

duration_since(later, earlier) == IF later >= earlier THEN later - earlier ELSE 0

(* Instant::now() returns any instant not before the previous reading. *)
Instants == now..MaxTime

----------------------------------------------------------------------------
(* ActionRecorder *)

ActionRecorder_new ==
    [current_sequence |-> None, is_recording |-> FALSE, last_action_time |-> None]

start_recording_unguarded(self, name, description, utc_now, t) ==
    [self |-> [current_sequence |-> Some(ActionSequence_new(name, description, utc_now)),
               is_recording |-> TRUE,
               last_action_time |-> Some(t)],
     ret |-> Ok(Unit)]

start_recording_clobbers(self, name, description, utc_now, t) ==
    IF self.is_recording
    THEN [self |-> [self EXCEPT !.current_sequence =
                        Some(ActionSequence_new(name, description, utc_now))],
          ret |-> Err(AlreadyRecording)]
    ELSE start_recording_unguarded(self, name, description, utc_now, t)

start_recording(self, name, description, utc_now, t) ==
    IF self.is_recording
    THEN [self |-> self, ret |-> Err(AlreadyRecording)]
    ELSE [self |-> [current_sequence |-> Some(ActionSequence_new(name, description, utc_now)),
                    is_recording |-> TRUE,
                    last_action_time |-> Some(t)],
          ret |-> Ok(Unit)]

stop_recording_keeps_slot(self) ==
    IF ~self.is_recording
    THEN [self |-> self, ret |-> Err(NotRecording)]
    ELSE [self |-> [self EXCEPT !.is_recording = FALSE],
          ret |-> IF IsSome(self.current_sequence)
                  THEN Ok(Unwrap(self.current_sequence))
                  ELSE Err(NoSequenceToSave)]

stop_recording_keeps_baseline(self) ==
    IF ~self.is_recording
    THEN [self |-> self, ret |-> Err(NotRecording)]
    ELSE [self |-> [self EXCEPT !.current_sequence = None, !.is_recording = FALSE],
          ret |-> IF IsSome(self.current_sequence)
                  THEN Ok(Unwrap(self.current_sequence))
                  ELSE Err(NoSequenceToSave)]

stop_recording(self) ==
    IF ~self.is_recording
    THEN [self |-> self, ret |-> Err(NotRecording)]
    ELSE [self |-> [current_sequence |-> None, is_recording |-> FALSE,
                    last_action_time |-> None],
          ret |-> IF IsSome(self.current_sequence)
                  THEN Ok(Unwrap(self.current_sequence))
                  ELSE Err(NoSequenceToSave)]

record_checked_in_ticks(self, action, t) ==
    LET delay_ms == IF IsSome(self.last_action_time)
                    THEN duration_since(t, Unwrap(self.last_action_time))
                    ELSE 0
        timed == IF IsSome(self.last_action_time)
                 THEN [self EXCEPT !.last_action_time = Some(t)]
                 ELSE self
    IN  IF IsSome(self.current_sequence)
        THEN [self |-> [timed EXCEPT !.current_sequence =
                            Some(add_action(Unwrap(@), action, delay_ms))],
              ret |-> Ok(Unit)]
        ELSE [self |-> timed, ret |-> Err(NoActiveSequence)]

(* record_action after its is_recording check *)
record_checked(self, action, t) ==
    LET delay_ms == IF IsSome(self.last_action_time)
                    THEN as_millis(duration_since(t, Unwrap(self.last_action_time)))
                    ELSE 0
        timed == IF IsSome(self.last_action_time)
                 THEN [self EXCEPT !.last_action_time = Some(t)]
                 ELSE self
    IN  IF IsSome(self.current_sequence)
        THEN [self |-> [timed EXCEPT !.current_sequence =
                            Some(add_action(Unwrap(@), action, delay_ms))],
              ret |-> Ok(Unit)]
        ELSE [self |-> timed, ret |-> Err(NoActiveSequence)]

record_action_unguarded(self, action, t) == record_checked(self, action, t)

record_action_keep_baseline(self, action, t) ==
    IF ~self.is_recording
    THEN [self |-> self, ret |-> Err(NotRecording)]
    ELSE LET r == record_checked(self, action, t)
         IN  [r EXCEPT !.self.last_action_time = self.last_action_time]

record_action(self, action, t) ==
    IF ~self.is_recording
    THEN [self |-> self, ret |-> Err(NotRecording)]
    ELSE record_checked(self, action, t)

is_recording(self) == self.is_recording

----------------------------------------------------------------------------
(* ActionPlayer *)

ActionPlayer_new == [current_sequence |-> None, current_index |-> 0, is_playing |-> FALSE]

load_sequence_keeps_cursor(self, sequence) ==
    [self EXCEPT !.current_sequence = Some(sequence)]

load_sequence(self, sequence) ==
    [current_sequence |-> Some(sequence), current_index |-> 0, is_playing |-> FALSE]

start_playback_unchecked(self) ==
    [self |-> [self EXCEPT !.is_playing = TRUE, !.current_index = 0], ret |-> Ok(Unit)]

start_playback_resumes(self) ==
    IF ~IsSome(self.current_sequence)
    THEN [self |-> self, ret |-> Err(NoSequenceLoaded)]
    ELSE [self |-> IF self.is_playing THEN self
                   ELSE [self EXCEPT !.is_playing = TRUE, !.current_index = 0],
          ret |-> Ok(Unit)]

start_playback(self) ==
    IF ~IsSome(self.current_sequence)
    THEN [self |-> self, ret |-> Err(NoSequenceLoaded)]
    ELSE [self |-> [self EXCEPT !.is_playing = TRUE, !.current_index = 0], ret |-> Ok(Unit)]

stop_playback_unloads(self) ==
    [current_sequence |-> None, current_index |-> 0, is_playing |-> FALSE]

stop_playback(self) == [self EXCEPT !.is_playing = FALSE, !.current_index = 0]

next_action_overrun(self) ==
    IF ~self.is_playing
    THEN [self |-> self, ret |-> None]
    ELSE IF IsSome(self.current_sequence)
         THEN LET sequence == Unwrap(self.current_sequence)
              IN  IF self.current_index < Len(sequence.actions)
                  THEN [self |-> [self EXCEPT !.current_index = @ + 1],
                        ret |-> Some(sequence.actions[self.current_index + 1])]
                  ELSE [self |-> [self EXCEPT !.is_playing = FALSE, !.current_index = @ + 1],
                        ret |-> None]
         ELSE [self |-> self, ret |-> None]

next_action_keeps_playing(self) ==
    IF ~self.is_playing
    THEN [self |-> self, ret |-> None]
    ELSE IF IsSome(self.current_sequence)
         THEN LET sequence == Unwrap(self.current_sequence)
              IN  IF self.current_index < Len(sequence.actions)
                  THEN [self |-> [self EXCEPT !.current_index = @ + 1],
                        ret |-> Some(sequence.actions[self.current_index + 1])]
                  ELSE [self |-> self, ret |-> None]
         ELSE [self |-> self, ret |-> None]

next_action_rewinds(self) ==
    IF ~self.is_playing
    THEN [self |-> [self EXCEPT !.current_index = 0], ret |-> None]
    ELSE IF IsSome(self.current_sequence)
         THEN LET sequence == Unwrap(self.current_sequence)
              IN  IF self.current_index < Len(sequence.actions)
                  THEN [self |-> [self EXCEPT !.current_index = @ + 1],
                        ret |-> Some(sequence.actions[self.current_index + 1])]
                  ELSE [self |-> [self EXCEPT !.is_playing = FALSE], ret |-> None]
         ELSE [self |-> self, ret |-> None]

(* Vec indices start at 0, sequence indices at 1. *)
next_action(self) ==
    IF ~self.is_playing
    THEN [self |-> self, ret |-> None]
    ELSE IF IsSome(self.current_sequence)
         THEN LET sequence == Unwrap(self.current_sequence)
              IN  IF self.current_index < Len(sequence.actions)
                  THEN [self |-> [self EXCEPT !.current_index = @ + 1],
                        ret |-> Some(sequence.actions[self.current_index + 1])]
                  ELSE [self |-> [self EXCEPT !.is_playing = FALSE], ret |-> None]
         ELSE [self |-> self, ret |-> None]

is_playing(self) == self.is_playing

get_progress(self) ==
    IF IsSome(self.current_sequence)
    THEN <<self.current_index, Len(Unwrap(self.current_sequence).actions)>>
    ELSE <<0, 0>>

----------------------------------------------------------------------------
(* The library directory.  A file name is a sequence of characters; the    *)
(* text of a file is either a JSON document or something serde rejects.    *)

JsonExt == <<"j", "s", "o", "n">>

(* str::replace(' ', "_") *)
replace_space(name) == [i \in DOMAIN name |-> IF name[i] = " " THEN "_" ELSE name[i]]

(* format!("{}.json", name.replace(' ', "_")) *)
file_name_of(name) == replace_space(name) \o <<".">> \o JsonExt

SeqMax(S) == CHOOSE m \in S : \A k \in S : k <= m

(* Path::extension: the part after the last '.', none when the name has no  *)
(* '.' or only a leading one.                                               *)
extension(file_name) ==
    LET dots == {i \in DOMAIN file_name : file_name[i] = "."}
    IN  IF dots = {} THEN None
        ELSE IF SeqMax(dots) = 1 THEN None
        ELSE Some(SubSeq(file_name, SeqMax(dots) + 1, Len(file_name)))

(* serde: an Action is an object that carries its variant in "type". *)
ActionToJson(a) ==
    CASE a[1] = "MoveMouse" -> [type |-> a[1], x |-> a[2], y |-> a[3]]
      [] a[1] = "ClickMouse" -> [type |-> a[1], button |-> a[2]]
      [] a[1] = "TypeText" -> [type |-> a[1], text |-> a[2]]
      [] a[1] = "PressKey" -> [type |-> a[1], key |-> a[2]]
      [] a[1] = "Wait" -> [type |-> a[1], milliseconds |-> a[2]]

ActionFromJson(j) ==
    CASE j.type = "MoveMouse" -> MoveMouse(j.x, j.y)
      [] j.type = "ClickMouse" -> ClickMouse(j.button)
      [] j.type = "TypeText" -> TypeText(j.text)
      [] j.type = "PressKey" -> PressKey(j.key)
      [] j.type = "Wait" -> Wait(j.milliseconds)

KnownVariants == {"MoveMouse", "ClickMouse", "TypeText", "PressKey", "Wait"}

to_string_pretty(sequence) ==
    [syntax |-> "json",
     doc |-> [name |-> sequence.name,
              description |-> sequence.description,
              actions |-> [i \in DOMAIN sequence.actions |->
                              [action |-> ActionToJson(sequence.actions[i].action),
                               delay_ms |-> sequence.actions[i].delay_ms]],
              created_at |-> sequence.created_at,
              tags |-> sequence.tags]]

Garbage == [syntax |-> "garbage", doc |-> <<>>]

from_str_drops_tags(content) ==
    IF content.syntax # "json" THEN Err("Failed to deserialize")
    ELSE Ok([name |-> content.doc.name,
             description |-> content.doc.description,
             actions |-> [i \in DOMAIN content.doc.actions |->
                             ActionWithTimestamp(
                                 ActionFromJson(content.doc.actions[i].action),
                                 content.doc.actions[i].delay_ms)],
             created_at |-> content.doc.created_at,
             tags |-> <<>>])

from_str(content) ==
    IF content.syntax # "json" THEN Err("Failed to deserialize")
    ELSE IF \E i \in DOMAIN content.doc.actions :
                content.doc.actions[i].action.type \notin KnownVariants
    THEN Err("Failed to deserialize")
    ELSE Ok([name |-> content.doc.name,
             description |-> content.doc.description,
             actions |-> [i \in DOMAIN content.doc.actions |->
                             ActionWithTimestamp(
                                 ActionFromJson(content.doc.actions[i].action),
                                 content.doc.actions[i].delay_ms)],
             created_at |-> content.doc.created_at,
             tags |-> content.doc.tags])

NoDirectory == [exists |-> FALSE, files |-> <<>>]

HasFile(d, file_name) == d.exists /\ file_name \in DOMAIN d.files

(* fs::write: creates the file or replaces its text *)
fs_write(d, file_name, content) ==
    [d EXCEPT !.files = [f \in (DOMAIN d.files) \cup {file_name} |->
                            IF f = file_name THEN content ELSE d.files[f]]]

fs_remove_file(d, file_name) ==
    [d EXCEPT !.files = [f \in (DOMAIN d.files) \ {file_name} |-> d.files[f]]]

(* save_to_file; write_ok is whether the operating system lets the write succeed *)
save_to_file(sequence, d, file_name, write_ok) ==
    IF write_ok
    THEN [disk |-> fs_write(d, file_name, to_string_pretty(sequence)), ret |-> Ok(Unit)]
    ELSE [disk |-> d, ret |-> Err("Failed to write file")]

load_from_file(d, file_name) ==
    IF ~HasFile(d, file_name) THEN Err("Failed to read file")
    ELSE from_str(d.files[file_name])

----------------------------------------------------------------------------
(* ActionLibrary *)

ActionLibrary_new == [sequences |-> <<>>]

add_sequence(self, sequence) == [self EXCEPT !.sequences = Append(@, sequence)]

get_sequence_last(self, name) ==
    LET hits == {i \in DOMAIN self.sequences : self.sequences[i].name = name}
    IN  IF hits = {} THEN None
        ELSE Some(self.sequences[CHOOSE i \in hits : \A k \in hits : i >= k])

(* iter().find: the first match *)
get_sequence(self, name) ==
    LET hits == {i \in DOMAIN self.sequences : self.sequences[i].name = name}
    IN  IF hits = {} THEN None
        ELSE Some(self.sequences[CHOOSE i \in hits : \A k \in hits : i <= k])

list_sequences(self) == [i \in DOMAIN self.sequences |-> self.sequences[i].name]

search_by_tag(self, tag) == SelectSeq(self.sequences, LAMBDA s : Contains(s.tags, tag))

(* The loop of save_all from sequence i on: the first writes_ok writes       *)
(* succeed, the next one fails and ends the loop.                            *)
RECURSIVE save_from(_, _, _, _)
save_from(sequences, i, d, writes_ok) ==
    IF i > Len(sequences) THEN [disk |-> d, ret |-> Ok(Unit)]
    ELSE LET r == save_to_file(sequences[i], d, file_name_of(sequences[i].name),
                               writes_ok > 0)
         IN  IF IsErr(r.ret) THEN r
             ELSE save_from(sequences, i + 1, r.disk, writes_ok - 1)

(* io = [mkdir_ok, writes_ok]: what the file system lets succeed *)
save_all(self, d, io) ==
    IF ~d.exists /\ ~io.mkdir_ok
    THEN [disk |-> d, ret |-> Err("Failed to create directory")]
    ELSE save_from(self.sequences, 1, [d EXCEPT !.exists = TRUE], io.writes_ok)

RECURSIVE load_entries(_, _, _)
load_entries(d, entries, acc) ==
    IF entries = <<>> THEN acc
    ELSE LET path == Head(entries)
             loaded == load_from_file(d, path)
         IN  load_entries(d, Tail(entries),
                 IF extension(path) = Some(JsonExt) /\ IsOk(loaded)
                 THEN Append(acc, loaded[2])
                 ELSE acc)

load_all_appends(self, d, entries) ==
    IF ~d.exists THEN [self |-> self, ret |-> Ok(Unit)]
    ELSE [self |-> [self EXCEPT !.sequences = load_entries(d, entries, @)],
          ret |-> Ok(Unit)]

(* entries: the directory's files in the order read_dir yields them *)
load_all(self, d, entries) ==
    IF ~d.exists THEN [self |-> self, ret |-> Ok(Unit)]
    ELSE [self |-> [self EXCEPT !.sequences = load_entries(d, entries, <<>>)],
          ret |-> Ok(Unit)]

delete_sequence_all(self, d, name, remove_ok) ==
    [self |-> [self EXCEPT !.sequences = <<>>], disk |-> d, ret |-> Ok(Unit)]

delete_sequence_first(self, d, name, remove_ok) ==
    LET hits == {i \in DOMAIN self.sequences : self.sequences[i].name = name}
        first == CHOOSE i \in hits : \A k \in hits : i <= k
        kept == IF hits = {} THEN self
                ELSE [self EXCEPT !.sequences =
                        SubSeq(@, 1, first - 1) \o SubSeq(@, first + 1, Len(@))]
        file_name == file_name_of(name)
    IN  IF HasFile(d, file_name) /\ remove_ok
        THEN [self |-> kept, disk |-> fs_remove_file(d, file_name), ret |-> Ok(Unit)]
        ELSE [self |-> kept, disk |-> d,
              ret |-> IF HasFile(d, file_name) THEN Err("Failed to delete file") ELSE Ok(Unit)]

delete_sequence(self, d, name, remove_ok) ==
    LET kept == [self EXCEPT !.sequences = SelectSeq(@, LAMBDA s : s.name # name)]
        file_name == file_name_of(name)
    IN  IF HasFile(d, file_name)
        THEN IF remove_ok
             THEN [self |-> kept, disk |-> fs_remove_file(d, file_name), ret |-> Ok(Unit)]
             ELSE [self |-> kept, disk |-> d, ret |-> Err("Failed to delete file")]
        ELSE [self |-> kept, disk |-> d, ret |-> Ok(Unit)]

(* The orders in which read_dir may list a set of files *)
Orders(S) == {o \in [1..Cardinality(S) -> S] : \A f \in S : \E i \in DOMAIN o : o[i] = f}

----------------------------------------------------------------------------
(* Inputs *)

Demo == <<"d", "e", "m", "o">>
SpaceName == <<"a", " ", "b">>
UnderscoreName == <<"a", "_", "b">>
Unnamed == <<"U", "n", "n", "a", "m", "e", "d">>

Names == {Demo, SpaceName}
Descriptions == {"", "first try"}
UtcTimes == {"2025-01-01T00:00:00+00:00"}
SampleActions == {MoveMouse(10, 20), ClickMouse("left")}

(* Sequences of at most n elements of S *)
SeqsUpTo(S, n) == UNION {[1..k -> S] : k \in 0..n}

SampleSequences ==
    {[name |-> Demo, description |-> "", actions |-> acts,
      created_at |-> "2025-01-01T00:00:00+00:00", tags |-> <<>>] :
        acts \in SeqsUpTo({ActionWithTimestamp(a, d) : a \in SampleActions, d \in {0, 50}},
                          MaxLen)}

----------------------------------------------------------------------------
(* The core API driven directly, without the daemon *)

CoreInit ==
    /\ recorder = ActionRecorder_new
    /\ player = ActionPlayer_new
    /\ library = ActionLibrary_new
    /\ disk = NoDirectory
    /\ now = 0
    /\ lock = None
    /\ conns = <<>>
    /\ ret = [op |-> "new", res |-> Ok(Unit)]
    /\ session = [log |-> <<>>, base |-> 0, start |-> 0, rejected |-> FALSE]
    /\ run = [loaded |-> None, started |-> FALSE, rets |-> <<>>]
    /\ announced = {}

----------------------------------------------------------------------------
(* The recorder driven through its API by one caller.  session is the      *)
(* caller's own record since its last successful start_recording: the      *)
(* actions it recorded with success, the instant of its last successful    *)
(* call, the instant of that start_recording, and whether a                *)
(* start_recording was refused meanwhile.                                  *)

CallStartRecording(name, description, utc_now, t) ==
    LET r == start_recording(recorder, name, description, utc_now, t)
    IN  /\ recorder' = r.self
        /\ now' = t
        /\ ret' = [op |-> "start_recording", res |-> r.ret,
                   arg |-> [name |-> name, description |-> description]]
        /\ session' = IF IsOk(r.ret)
                      THEN [log |-> <<>>, base |-> t, start |-> t, rejected |-> FALSE]
                      ELSE [session EXCEPT !.rejected = TRUE]
        /\ UNCHANGED <<player, library, disk, lock, conns, run, announced>>

CallRecordAction(action, t) ==
    LET r == record_action(recorder, action, t)
    IN  /\ Len(session.log) < MaxActions
        /\ recorder' = r.self
        /\ now' = t
        /\ ret' = [op |-> "record_action", res |-> r.ret]
        /\ session' = IF IsOk(r.ret)
                      THEN [session EXCEPT !.log = Append(@, action), !.base = t]
                      ELSE session
        /\ UNCHANGED <<player, library, disk, lock, conns, run, announced>>

CallStopRecording ==
    LET r == stop_recording(recorder)
    IN  /\ recorder' = r.self
        /\ ret' = [op |-> "stop_recording", res |-> r.ret]
        /\ UNCHANGED <<player, library, disk, now, lock, conns, session, run, announced>>

RecorderNext ==
    \/ \E name \in Names, description \in Descriptions, utc_now \in UtcTimes, t \in Instants :
            CallStartRecording(name, description, utc_now, t)
    \/ \E action \in SampleActions, t \in Instants : CallRecordAction(action, t)
    \/ CallStopRecording

RecorderSpec == CoreInit /\ [][RecorderNext]_vars

----------------------------------------------------------------------------
(* The player driven through its API by one caller.  run is the caller's   *)
(* own record: the sequence it loaded last, whether it started playback    *)
(* since, and what next_action returned since that start.                  *)

CallLoadSequence(sequence) ==
    /\ player' = load_sequence(player, sequence)
    /\ ret' = [op |-> "load_sequence", res |-> Ok(Unit)]
    /\ run' = [loaded |-> Some(sequence), started |-> FALSE, rets |-> <<>>]
    /\ UNCHANGED <<recorder, library, disk, now, lock, conns, session, announced>>

CallStartPlayback ==
    LET r == start_playback(player)
    IN  /\ player' = r.self
        /\ ret' = [op |-> "start_playback", res |-> r.ret, from |-> player]
        /\ run' = IF IsOk(r.ret) THEN [run EXCEPT !.started = TRUE, !.rets = <<>>] ELSE run
        /\ UNCHANGED <<recorder, library, disk, now, lock, conns, session, announced>>

CallStopPlayback ==
    /\ player' = stop_playback(player)
    /\ ret' = [op |-> "stop_playback", res |-> Ok(Unit), from |-> player]
    /\ run' = [run EXCEPT !.started = FALSE, !.rets = <<>>]
    /\ UNCHANGED <<recorder, library, disk, now, lock, conns, session, announced>>

CallNextAction ==
    LET r == next_action(player)
    IN  /\ player' = r.self
        /\ ret' = [op |-> "next_action", res |-> r.ret, from |-> player]
        /\ run' = IF run.started /\ Len(run.rets) < MaxLen + 2
                  THEN [run EXCEPT !.rets = Append(@, r.ret)]
                  ELSE run
        /\ UNCHANGED <<recorder, library, disk, now, lock, conns, session, announced>>

PlayerNext ==
    \/ \E sequence \in SampleSequences : CallLoadSequence(sequence)
    \/ CallStartPlayback
    \/ CallStopPlayback
    \/ CallNextAction

PlayerSpec == CoreInit /\ [][PlayerNext]_vars

----------------------------------------------------------------------------
(* The daemon: JSON requests *)

(* serde_json::Value of a field: absent fields index to Null *)
JNull == <<"null">>
JStr(s) == <<"str", s>>
JNum(n) == <<"num", n>>

as_str(v) == IF v[1] = "str" THEN Some(v[2]) ELSE None
as_i64(v) == IF v[1] = "num" THEN Some(v[2]) ELSE None

(* What one read of the socket yields: text that parses as JSON, with the   *)
(* fields the handlers look at, or text that does not (an empty read too).  *)
Request(type, name, description, action, x) ==
    [valid |-> TRUE, type |-> type, name |-> name, description |-> description,
     action |-> action, x |-> x]

Typed(type) == Request(JStr(type), JNull, JNull, JNull, JNull)

InvalidJson == [valid |-> FALSE, type |-> JNull, name |-> JNull, description |-> JNull,
                action |-> JNull, x |-> JNull]

NameFields == {JNull, JStr(Demo), JStr(SpaceName)}

(* The requests of connections that race to start a recording *)
StartPayloads == {Request(JStr("start_recording"), n, JNull, JNull, JNull) : n \in NameFields}

(* The requests the daemon is sent: one that is not JSON, one of an unknown *)
(* type, one for each command that locks the shared state (load and delete *)
(* with a name that is in use and without a name), one that calls an       *)
(* external collaborator.                                                  *)
Payloads ==
    {InvalidJson, Typed("bogus"),
     Request(JStr("start_recording"), JStr(Demo), JNull, JNull, JNull),
     Request(JStr("record_action"), JNull, JNull, JStr("move_mouse"), JNum(10)),
     Request(JStr("record_action"), JNull, JNull, JStr("scroll"), JNull),
     Typed("stop_recording"), Typed("is_recording"), Typed("play_sequence"),
     Typed("list_sequences"), Typed("move_mouse")}
    \cup {Request(JStr(t), n, JNull, JNull, JNull) :
            t \in {"load_sequence", "delete_sequence"}, n \in {JNull, JStr(Demo)}}

(* The commands whose handlers lock the shared state *)
LockingCommands ==
    {"start_recording", "stop_recording", "record_action", "is_recording",
     "load_sequence", "play_sequence", "list_sequences", "delete_sequence"}

(* The commands modelled here that call an external collaborator *)
ExternalCommands == {"move_mouse", "click_mouse"}

Success(fields) == [status |-> "success", fields |-> fields]
Error(message) == [status |-> "error", fields |-> [message |-> message]]

NoResponse == [status |-> "none", fields |-> <<>>]

(* The connection tasks that can be alive at the same time *)
Conns == {1, 2}

FreeConn == [pc |-> "free", req |-> InvalidJson, found |-> None, resp |-> NoResponse]

TypeOf(c) == unwrap_or(as_str(conns[c].req.type), "")

----------------------------------------------------------------------------
(* The daemon: one task per connection (main) *)

(* listener.accept() and tokio::spawn *)
Accept(c) ==
    /\ conns[c].pc = "free"
    /\ conns' = [conns EXCEPT ![c].pc = "reading"]
    /\ UNCHANGED <<recorder, player, library, disk, now, lock, ret, session, run, announced>>

InFlight(type) ==
    Cardinality({c \in DOMAIN conns : conns[c].pc \notin {"free", "reading", "writing"}
                                       /\ TypeOf(c) = type})

(* The model stops clients from sending what would grow the state past its *)
(* bounds: a live recording past MaxLive actions, a library past cap.      *)
Within(payload, cap) ==
    LET type == unwrap_or(as_str(payload.type), "")
    IN  /\ type = "record_action" =>
                InFlight("record_action") +
                (IF IsSome(recorder.current_sequence)
                 THEN Len(Unwrap(recorder.current_sequence).actions) ELSE 0) < MaxLive
        /\ type = "start_recording" =>
                (IF recorder.is_recording THEN 1 ELSE 0) + InFlight("stop_recording")
                + Len(library.sequences) < cap
        /\ type = "stop_recording" =>
                InFlight("stop_recording") + Len(library.sequences) < cap

WithinBounds(payload) == Within(payload, MaxLib)

(* socket.read, serde_json::from_str and the match on req["type"] up to the *)
(* handler's first lock or external call                                    *)
ReadOutcome_parses_anything(payload) ==
    [pc |-> "lock_wait", req |-> [payload EXCEPT !.valid = TRUE], found |-> None,
     resp |-> NoResponse]

ReadOutcome_defaults_type(payload) ==
    IF ~payload.valid
    THEN [pc |-> "writing", req |-> InvalidJson, found |-> None,
          resp |-> Error(<<"Invalid JSON: ", "expected value">>)]
    ELSE LET type == unwrap_or(as_str(payload.type), "list_sequences")
         IN  IF type \in ExternalCommands
             THEN [pc |-> "external", req |-> payload, found |-> None, resp |-> NoResponse]
             ELSE [pc |-> "lock_wait",
                   req |-> [payload EXCEPT !.type =
                                IF type \in LockingCommands THEN @ ELSE JStr("list_sequences")],
                   found |-> None, resp |-> NoResponse]

(* What the task does with the bytes it read: the error response of main   *)
(* when they are not JSON, else the match arm of handle_request chosen by  *)
(* req["type"], up to the arm's first lock or external call.               *)
ReadOutcome(payload) ==
    IF ~payload.valid
    THEN [pc |-> "writing", req |-> InvalidJson, found |-> None,
          resp |-> Error(<<"Invalid JSON: ", "expected value">>)]
    ELSE LET type == unwrap_or(as_str(payload.type), "")
         IN  IF type \in LockingCommands
             THEN [pc |-> "lock_wait", req |-> payload, found |-> None,
                   resp |-> NoResponse]
             ELSE IF type \in ExternalCommands
             THEN [pc |-> "external", req |-> payload, found |-> None,
                   resp |-> NoResponse]
             ELSE [pc |-> "writing", req |-> InvalidJson, found |-> None,
                   resp |-> Error(<<"Unknown request type: ", payload.type>>)]

Read(c, payload) ==
    /\ conns[c].pc = "reading"
    /\ conns' = [conns EXCEPT ![c] = ReadOutcome(payload)]
    /\ UNCHANGED <<recorder, player, library, disk, now, lock, session, run, announced>>

ReadRequest(c, payload) ==
    /\ WithinBounds(payload)
    /\ Read(c, payload)
    /\ UNCHANGED ret

mutex_lock_broken(c) == TRUE

(* state.lock(): the task goes on only when no other task holds the mutex *)
mutex_lock(c) == lock = None

(* A handler whose whole critical section is one call: it takes the lock,  *)
(* runs, and drops its guard at the end of the match arm.                  *)
Locked(c, type) == conns[c].pc = "lock_wait" /\ TypeOf(c) = type /\ mutex_lock(c)

(* The handler ends: its guard is dropped and its response goes to be      *)
(* written; nothing reads the request after that.                          *)
Respond(c, resp) ==
    /\ lock' = None
    /\ conns' = [conns EXCEPT ![c] = [pc |-> "writing", req |-> InvalidJson,
                                      found |-> None, resp |-> resp]]

HandleStartRecording(c, utc_now, t) ==
    LET name == unwrap_or(as_str(conns[c].req.name), Unnamed)
        description == unwrap_or(as_str(conns[c].req.description), "")
        r == start_recording(recorder, name, description, utc_now, t)
    IN  /\ Locked(c, "start_recording")
        /\ recorder' = r.self
        /\ now' = t
        /\ Respond(c, IF IsOk(r.ret) THEN Success([message |-> "Recording started"])
                      ELSE Error(r.ret[2]))
        /\ UNCHANGED <<player, library, disk, ret, session, run, announced>>

(* stop_recording: state.recorder.stop_recording() *)
HandleStopRecording(c) ==
    LET r == stop_recording(recorder)
    IN  /\ Locked(c, "stop_recording")
        /\ recorder' = r.self
        /\ IF IsOk(r.ret)
           THEN /\ conns' = [conns EXCEPT ![c].pc = "stop_add", ![c].found = Some(r.ret[2])]
                /\ lock' = Some(c)
           ELSE Respond(c, Error(r.ret[2]))
        /\ UNCHANGED <<player, library, disk, now, ret, session, run, announced>>

(* stop_recording: state.library.add_sequence(sequence.clone()) *)
HandleStopAdd(c) ==
    /\ conns[c].pc = "stop_add"
    /\ library' = add_sequence(library, Unwrap(conns[c].found))
    /\ conns' = [conns EXCEPT ![c].pc = "stop_save"]
    /\ UNCHANGED <<recorder, player, disk, now, lock, ret, session, run, announced>>

(* stop_recording: let _ = state.library.save_all(), and the response *)
HandleStopSave(c, io) ==
    LET r == save_all(library, disk, io)
    IN  /\ conns[c].pc = "stop_save"
        /\ disk' = r.disk
        /\ lock' = None
        /\ conns' = [conns EXCEPT ![c] =
                        [pc |-> "writing", req |-> InvalidJson, found |-> None,
                         resp |-> Success([message |-> "Recording stopped",
                                           sequence |-> Unwrap(conns[c].found).name])]]
        /\ announced' = announced \cup {Unwrap(conns[c].found).name}
        /\ UNCHANGED <<recorder, player, library, now, ret, session, run>>

(* The match on req["action"] of the record_action handler *)
ParseAction(req) ==
    LET action_type == unwrap_or(as_str(req.action), "")
    IN  CASE action_type = "move_mouse" ->
                Some(MoveMouse(unwrap_or(as_i64(req.x), 0), 0))
          [] action_type = "click_mouse" -> Some(ClickMouse("left"))
          [] action_type = "type_text" -> Some(TypeText(""))
          [] action_type = "press_key" -> Some(PressKey(""))
          [] action_type = "wait" -> Some(Wait(1000))
          [] OTHER -> None

HandleRecordAction_resets_baseline(c, t) ==
    LET action == ParseAction(conns[c].req)
        r == record_action(recorder, Unwrap(action), t)
    IN  /\ Locked(c, "record_action")
        /\ now' = t
        /\ IF ~IsSome(action)
           THEN /\ Respond(c, Error(<<"Unknown action type: ",
                                     unwrap_or(as_str(conns[c].req.action), "")>>))
                /\ recorder' = IF recorder.is_recording
                               THEN [recorder EXCEPT !.last_action_time = Some(t)]
                               ELSE recorder
           ELSE /\ recorder' = r.self
                /\ Respond(c, IF IsOk(r.ret) THEN Success([message |-> "Action recorded"])
                              ELSE Error(r.ret[2]))
        /\ UNCHANGED <<player, library, disk, ret, session, run, announced>>

(* record_action: the match on req["action"], then recorder.record_action *)
HandleRecordAction(c, t) ==
    LET action == ParseAction(conns[c].req)
        r == record_action(recorder, Unwrap(action), t)
    IN  /\ Locked(c, "record_action")
        /\ now' = t
        /\ IF ~IsSome(action)
           THEN /\ Respond(c, Error(<<"Unknown action type: ",
                                     unwrap_or(as_str(conns[c].req.action), "")>>))
                /\ UNCHANGED recorder
           ELSE /\ recorder' = r.self
                /\ Respond(c, IF IsOk(r.ret) THEN Success([message |-> "Action recorded"])
                              ELSE Error(r.ret[2]))
        /\ UNCHANGED <<player, library, disk, ret, session, run, announced>>

HandleIsRecording(c) ==
    /\ Locked(c, "is_recording")
    /\ Respond(c, Success([recording |-> is_recording(recorder)]))
    /\ UNCHANGED <<recorder, player, library, disk, now, ret, session, run, announced>>

HandleLoadLookup_keeps_guard(c) ==
    LET name == unwrap_or(as_str(conns[c].req.name), <<>>)
        sequence_clone == get_sequence(library, name)
    IN  /\ Locked(c, "load_sequence")
        /\ lock' = IF IsSome(sequence_clone) THEN Some(c) ELSE None
        /\ conns' = [conns EXCEPT ![c] =
                IF IsSome(sequence_clone)
                THEN [@ EXCEPT !.pc = "relock_wait", !.found = sequence_clone]
                ELSE [pc |-> "writing", req |-> InvalidJson, found |-> None,
                      resp |-> Error(<<"Sequence not found: ", name>>)]]
        /\ UNCHANGED <<recorder, player, library, disk, now, ret, session, run, announced>>

HandleLoadLookup_unloads(c) ==
    LET name == unwrap_or(as_str(conns[c].req.name), <<>>)
        sequence_clone == get_sequence(library, name)
    IN  /\ Locked(c, "load_sequence")
        /\ lock' = None
        /\ player' = IF IsSome(sequence_clone) THEN player ELSE ActionPlayer_new
        /\ conns' = [conns EXCEPT ![c] =
                IF IsSome(sequence_clone)
                THEN [@ EXCEPT !.pc = "relock_wait", !.found = sequence_clone]
                ELSE [pc |-> "writing", req |-> InvalidJson, found |-> None,
                      resp |-> Error(<<"Sequence not found: ", name>>)]]
        /\ UNCHANGED <<recorder, library, disk, now, ret, session, run, announced>>

(* load_sequence, first critical section: the lookup in the library; the   *)
(* guard is dropped at the end of the block                                 *)
HandleLoadLookup(c) ==
    LET name == unwrap_or(as_str(conns[c].req.name), <<>>)
        sequence_clone == get_sequence(library, name)
    IN  /\ Locked(c, "load_sequence")
        /\ lock' = None
        /\ conns' = [conns EXCEPT ![c] =
                IF IsSome(sequence_clone)
                THEN [@ EXCEPT !.pc = "relock_wait", !.found = sequence_clone]
                ELSE [pc |-> "writing", req |-> InvalidJson, found |-> None,
                      resp |-> Error(<<"Sequence not found: ", name>>)]]
        /\ UNCHANGED <<recorder, player, library, disk, now, ret, session, run, announced>>

(* load_sequence, second critical section: the load into the player *)
HandleLoadIntoPlayer(c) ==
    /\ conns[c].pc = "relock_wait"
    /\ mutex_lock(c)
    /\ player' = load_sequence(player, Unwrap(conns[c].found))
    /\ lock' = None
    /\ conns' = [conns EXCEPT ![c] =
                    [pc |-> "writing", req |-> InvalidJson, found |-> None,
                     resp |-> Success([message |-> <<"Loaded sequence: ",
                                                     Unwrap(conns[c].found).name>>])]]
    /\ UNCHANGED <<recorder, library, disk, now, ret, session, run, announced>>

HandlePlaySequence_plays(c) ==
    LET r == start_playback(player)
    IN  /\ Locked(c, "play_sequence")
        /\ player' = IF IsOk(r.ret)
                     THEN [r.self EXCEPT
                              !.current_index = Len(Unwrap(r.self.current_sequence).actions),
                              !.is_playing = FALSE]
                     ELSE r.self
        /\ Respond(c, IF IsOk(r.ret) THEN Success([message |-> "Playback started"])
                      ELSE Error(r.ret[2]))
        /\ UNCHANGED <<recorder, library, disk, now, ret, session, run, announced>>

(* play_sequence: state.player.start_playback() and nothing more *)
HandlePlaySequence(c) ==
    LET r == start_playback(player)
    IN  /\ Locked(c, "play_sequence")
        /\ player' = r.self
        /\ Respond(c, IF IsOk(r.ret) THEN Success([message |-> "Playback started"])
                      ELSE Error(r.ret[2]))
        /\ UNCHANGED <<recorder, library, disk, now, ret, session, run, announced>>

HandleListSequences(c) ==
    /\ Locked(c, "list_sequences")
    /\ Respond(c, Success([sequences |-> list_sequences(library)]))
    /\ UNCHANGED <<recorder, player, library, disk, now, ret, session, run, announced>>

HandleDeleteSequence_unloads(c, remove_ok) ==
    LET name == unwrap_or(as_str(conns[c].req.name), <<>>)
        r == delete_sequence(library, disk, name, remove_ok)
    IN  /\ Locked(c, "delete_sequence")
        /\ library' = r.self
        /\ disk' = r.disk
        /\ player' = IF IsSome(player.current_sequence)
                        /\ Unwrap(player.current_sequence).name = name
                     THEN ActionPlayer_new
                     ELSE player
        /\ Respond(c, IF IsOk(r.ret) THEN Success([message |-> <<"Deleted sequence: ", name>>])
                      ELSE Error(r.ret[2]))
        /\ announced' = announced \ {name}
        /\ UNCHANGED <<recorder, now, ret, session, run>>

(* delete_sequence: state.library.delete_sequence(name) *)
HandleDeleteSequence(c, remove_ok) ==
    LET name == unwrap_or(as_str(conns[c].req.name), <<>>)
        r == delete_sequence(library, disk, name, remove_ok)
    IN  /\ Locked(c, "delete_sequence")
        /\ library' = r.self
        /\ disk' = r.disk
        /\ Respond(c, IF IsOk(r.ret) THEN Success([message |-> <<"Deleted sequence: ", name>>])
                      ELSE Error(r.ret[2]))
        /\ announced' = announced \ {name}
        /\ UNCHANGED <<recorder, player, now, ret, session, run>>

(* A handler that only calls an external collaborator and forwards its result *)
HandleExternal_records(c, ok) ==
    /\ conns[c].pc = "external"
    /\ recorder' = IF recorder.is_recording
                   THEN record_action(recorder, ClickMouse("left"), now).self
                   ELSE recorder
    /\ conns' = [conns EXCEPT ![c] =
                    [pc |-> "writing", req |-> InvalidJson, found |-> None,
                     resp |-> IF ok THEN Success(<<>>) ELSE Error("collaborator failed")]]
    /\ UNCHANGED <<player, library, disk, now, lock, ret, session, run, announced>>

HandleExternal_under_lock(c, ok) ==
    /\ conns[c].pc = "external"
    /\ mutex_lock(c)
    /\ conns' = [conns EXCEPT ![c] =
                    [pc |-> "writing", req |-> InvalidJson, found |-> None,
                     resp |-> IF ok THEN Success(<<>>) ELSE Error("collaborator failed")]]
    /\ UNCHANGED <<recorder, player, library, disk, now, lock, ret, session, run, announced>>

(* An arm that only calls an external collaborator (move_mouse, click_mouse *)
(* and the like): no lock is taken and no shared state is touched.         *)
HandleExternal(c, ok) ==
    /\ conns[c].pc = "external"
    /\ conns' = [conns EXCEPT ![c] =
                    [pc |-> "writing", req |-> InvalidJson, found |-> None,
                     resp |-> IF ok THEN Success(<<>>) ELSE Error("collaborator failed")]]
    /\ UNCHANGED <<recorder, player, library, disk, now, lock, ret, session, run, announced>>

(* socket.write_all; the task ends and the connection closes *)
WriteResponse(c) ==
    /\ conns[c].pc = "writing"
    /\ conns' = [conns EXCEPT ![c] = FreeConn]
    /\ UNCHANGED <<recorder, player, library, disk, now, lock, ret, session, run, announced>>

(* What the file system lets save_all do: everything, or fail at mkdir or  *)
(* at some write                                                           *)
IoGranted == [mkdir_ok |-> TRUE, writes_ok |-> MaxLib]
IoOutcomes == {[mkdir_ok |-> m, writes_ok |-> w] : m \in BOOLEAN, w \in 0..MaxStored}

DaemonInstants == now..MaxDaemonTime

(* DaemonState::new: fresh recorder and player, the library loaded from disk *)
DaemonState_new(d, entries) ==
    [recorder |-> ActionRecorder_new,
     player |-> ActionPlayer_new,
     library |-> load_all(ActionLibrary_new, d, entries).self]

InitialDisks == {NoDirectory}

Init ==
    /\ disk \in InitialDisks
    /\ \E entries \in Orders(DOMAIN disk.files) :
            LET state == DaemonState_new(disk, entries)
            IN  /\ recorder = state.recorder
                /\ player = state.player
                /\ library = state.library
    /\ now = 0
    /\ lock = None
    /\ conns = [c \in Conns |-> FreeConn]
    /\ ret = [op |-> "new", res |-> Ok(Unit)]
    /\ session = [log |-> <<>>, base |-> 0, start |-> 0, rejected |-> FALSE]
    /\ run = [loaded |-> None, started |-> FALSE, rets |-> <<>>]
    /\ announced = {}

Next ==
    \/ \E c \in DOMAIN conns : Accept(c)
    \/ \E c \in DOMAIN conns, payload \in Payloads : ReadRequest(c, payload)
    \/ \E c \in DOMAIN conns, utc_now \in UtcTimes, t \in DaemonInstants :
            HandleStartRecording(c, utc_now, t)
    \/ \E c \in DOMAIN conns : HandleStopRecording(c)
    \/ \E c \in DOMAIN conns : HandleStopAdd(c)
    \/ \E c \in DOMAIN conns : HandleStopSave(c, IoGranted)
    \/ \E c \in DOMAIN conns, t \in DaemonInstants : HandleRecordAction(c, t)
    \/ \E c \in DOMAIN conns : HandleIsRecording(c)
    \/ \E c \in DOMAIN conns : HandleLoadLookup(c)
    \/ \E c \in DOMAIN conns : HandleLoadIntoPlayer(c)
    \/ \E c \in DOMAIN conns : HandlePlaySequence(c)
    \/ \E c \in DOMAIN conns : HandleListSequences(c)
    \/ \E c \in DOMAIN conns : HandleDeleteSequence(c, TRUE)
    \/ \E c \in DOMAIN conns, ok \in BOOLEAN : HandleExternal(c, ok)
    \/ \E c \in DOMAIN conns : WriteResponse(c)

Spec == Init /\ [][Next]_vars

----------------------------------------------------------------------------
(* The daemon with RaceConns connections that all send start_recording     *)
(* while the recorder is Idle; their responses are kept, not yet written.  *)

RaceInit ==
    /\ disk = NoDirectory
    /\ recorder = DaemonState_new(disk, <<>>).recorder
    /\ player = DaemonState_new(disk, <<>>).player
    /\ library = DaemonState_new(disk, <<>>).library
    /\ now = 0
    /\ lock = None
    /\ conns = [c \in 1..RaceConns |-> FreeConn]
    /\ ret = [op |-> "new", res |-> Ok(Unit)]
    /\ session = [log |-> <<>>, base |-> 0, start |-> 0, rejected |-> FALSE]
    /\ run = [loaded |-> None, started |-> FALSE, rets |-> <<>>]
    /\ announced = {}

RaceNext ==
    \/ \E c \in DOMAIN conns : Accept(c)
    \/ \E c \in DOMAIN conns, payload \in StartPayloads : ReadRequest(c, payload)
    \/ \E c \in DOMAIN conns, utc_now \in UtcTimes, t \in DaemonInstants :
            HandleStartRecording(c, utc_now, t)

RaceSpec == RaceInit /\ [][RaceNext]_vars

----------------------------------------------------------------------------
(* Claims about the recorder, under RecorderSpec *)

ActionsOf(sequence) == [i \in DOMAIN sequence.actions |-> sequence.actions[i].action]

\* C1: after a successful start_recording, N successful record_action calls
\* (start_recording calls that fail in between change nothing) and then
\* stop_recording, the returned sequence holds exactly the N recorded
\* actions, in the order they were recorded.
C1_StopReturnsRecorded ==
    (ret.op = "stop_recording" /\ IsOk(ret.res)) => ActionsOf(ret.res[2]) = session.log

C1_Witness ==
    /\ ret.op = "stop_recording" /\ IsOk(ret.res)
    /\ Len(session.log) >= 2 /\ session.log[1] # session.log[2]
    /\ session.rejected

\* C2: start_recording while Recording fails with "Already recording" and
\* leaves the recorder as it was: still Recording, the live sequence with
\* the same name, description and actions.
C2_StartWhileRecordingRefused ==
    [][(ret'.op = "start_recording" /\ recorder.is_recording) =>
            /\ ret'.res = Err(AlreadyRecording)
            /\ recorder'.is_recording
            /\ recorder'.current_sequence = recorder.current_sequence
            /\ recorder' = recorder]_vars

C2_Witness ==
    /\ ret.op = "start_recording" /\ ret.res = Err(AlreadyRecording)
    /\ recorder.is_recording
    /\ Len(Unwrap(recorder.current_sequence).actions) >= 1

\* C3: while Idle, stop_recording and record_action fail with "Not currently
\* recording", return no sequence, append nothing and leave the recorder
\* Idle with no live sequence.
C3_IdleCallsRefused ==
    [][(~recorder.is_recording /\ ret'.op \in {"stop_recording", "record_action"}) =>
            /\ ret'.res = Err(NotRecording)
            /\ recorder' = recorder
            /\ ~recorder'.is_recording
            /\ recorder'.current_sequence = None]_vars

C3_Witness ==
    /\ ret.op = "record_action" /\ ret.res = Err(NotRecording)
    /\ ~recorder.is_recording
    /\ session.log # <<>>

\* C10: a successful record_action stores as delay_ms the whole milliseconds
\* of monotonic time elapsed since the previous successful record_action of
\* the session (since start_recording for the first action), makes the
\* current instant the new baseline, and the delay is never negative.
C10_DelayIsElapsed ==
    [][(ret'.op = "record_action" /\ IsOk(ret'.res)) =>
            LET acts == Unwrap(recorder'.current_sequence).actions
            IN  /\ Len(acts) = Len(Unwrap(recorder.current_sequence).actions) + 1
                /\ acts[Len(acts)].delay_ms = (now' - session.base) \div TicksPerMs
                /\ acts[Len(acts)].delay_ms >= 0
                /\ recorder'.last_action_time = Some(now')]_vars

C10_Witness ==
    /\ ret.op = "record_action" /\ IsOk(ret.res)
    /\ Len(Unwrap(recorder.current_sequence).actions) >= 2
    /\ \A i \in 1..2 : Unwrap(recorder.current_sequence).actions[i].delay_ms >= 1

----------------------------------------------------------------------------
(* Claims about the player, under PlayerSpec *)

\* C4: after load_sequence of a sequence of L actions and start_playback, the
\* first L next_action calls return the L actions in order, the next one
\* returns nothing and ends playback, and get_progress then reports (L, L).
C4_PlayerExhaustion ==
    run.started =>
        LET loaded == Unwrap(run.loaded).actions
        IN  /\ \A i \in DOMAIN run.rets :
                    run.rets[i] = IF i <= Len(loaded) THEN Some(loaded[i]) ELSE None
            /\ Len(run.rets) > Len(loaded) =>
                    /\ ~is_playing(player)
                    /\ get_progress(player) = <<Len(loaded), Len(loaded)>>

C4_Witness ==
    /\ run.started
    /\ Len(Unwrap(run.loaded).actions) = 2
    /\ Unwrap(run.loaded).actions[1] # Unwrap(run.loaded).actions[2]
    /\ Len(run.rets) = 3
    /\ ret.op = "next_action"

\* C5: start_playback with no sequence loaded fails with "No sequence loaded"
\* and leaves the player Empty, not playing, with its cursor at 0.
C5_StartPlaybackEmptyRefused ==
    [][(ret'.op = "start_playback" /\ ~IsSome(player.current_sequence)) =>
            /\ ret'.res = Err(NoSequenceLoaded)
            /\ player' = player
            /\ player'.current_sequence = None
            /\ ~player'.is_playing
            /\ player'.current_index = 0]_vars

C5_Witness ==
    /\ ret.op = "start_playback" /\ ret.res = Err(NoSequenceLoaded)
    /\ player.current_sequence = None

----------------------------------------------------------------------------
(* Claims about the daemon                                                  *)

(* The step in which connection c's handler, of a request of the given     *)
(* types, takes the mutex and builds its response                           *)
Handled(c, types) ==
    /\ conns[c].pc = "lock_wait"
    /\ TypeOf(c) \in types
    /\ conns'[c].pc = "writing"

NameOf(c) == unwrap_or(as_str(conns[c].req.name), <<>>)

\* C6: the handler of load_sequence does its lookup in the library and its
\* load into the player in one critical section, so a sequence found by the
\* lookup is still the library's sequence of that name when it is loaded.
C6_LoadSequenceAtomic ==
    \A c \in DOMAIN conns :
        conns[c].pc = "relock_wait" => get_sequence(library, NameOf(c)) = conns[c].found

\* C7: of the start_recording requests issued while the recorder is Idle,
\* the first handled gets a success response and every other an error
\* response that changes nothing; so exactly one has succeeded, the recorder
\* is Recording and the live sequence has the name of the one that succeeded.
C7_OneStartSucceeds ==
    [][/\ \A c \in DOMAIN conns :
            Handled(c, {"start_recording"}) =>
                IF \A d \in DOMAIN conns : conns[d].resp.status # "success"
                THEN /\ conns'[c].resp.status = "success"
                     /\ recorder'.is_recording
                     /\ Unwrap(recorder'.current_sequence).name =
                            unwrap_or(as_str(conns[c].req.name), Unnamed)
                ELSE /\ conns'[c].resp.status = "error"
                     /\ recorder' = recorder
       /\ LET done == {c \in DOMAIN conns : conns'[c].pc = "writing"}
              won == {c \in done : conns'[c].resp.status = "success"}
          IN  done # {} =>
                /\ Cardinality(won) = 1
                /\ \A c \in done \ won : conns'[c].resp.status = "error"
                /\ recorder'.is_recording]_vars

C7_Witness ==
    /\ \A c \in DOMAIN conns : conns[c].pc = "writing"
    /\ \E c \in DOMAIN conns : conns[c].resp.status = "success"
    /\ \E c, d \in DOMAIN conns : c # d /\ conns[c].resp.status = "error"
                                       /\ conns[d].resp.status = "error"
    /\ recorder.is_recording
    /\ Unwrap(recorder.current_sequence).name = SpaceName

\* C8: a handler of is_recording or list_sequences runs only when no other
\* handler is inside its critical section, answers with the recording flag
\* or the library's names of that one instant, and changes nothing.
C8_ReadsSeeOneInstant ==
    [][\A c \in DOMAIN conns :
            Handled(c, {"is_recording", "list_sequences"}) =>
                /\ lock = None
                /\ \A d \in DOMAIN conns : conns[d].pc \notin {"stop_add", "stop_save"}
                /\ recorder.is_recording = IsSome(recorder.current_sequence)
                /\ TypeOf(c) = "is_recording" =>
                        conns'[c].resp = Success([recording |-> recorder.is_recording])
                /\ TypeOf(c) = "list_sequences" =>
                        conns'[c].resp = Success([sequences |->
                            [i \in DOMAIN library.sequences |-> library.sequences[i].name]])
                /\ recorder' = recorder
                /\ player' = player
                /\ library' = library]_vars

C8_Witness ==
    \E c, d \in DOMAIN conns :
        /\ conns[c].pc = "writing"
        /\ conns[c].resp.status = "success"
        /\ DOMAIN conns[c].resp.fields = {"recording"}
        /\ conns[c].resp.fields.recording
        /\ conns[d].pc = "lock_wait"
        /\ TypeOf(d) = "stop_recording"

\* C9: every list_sequences response built after a stop_recording success
\* response for a sequence named S, and before a delete_sequence of S is
\* handled, has S among its names.
C9_StoredSequenceListed ==
    [][\A c \in DOMAIN conns :
            Handled(c, {"list_sequences"}) =>
                \A S \in announced : Contains(conns'[c].resp.fields.sequences, S)]_vars

C9_Witness ==
    \E c \in DOMAIN conns :
        /\ conns[c].pc = "writing"
        /\ conns[c].resp.status = "success"
        /\ DOMAIN conns[c].resp.fields = {"sequences"}
        /\ Demo \in announced
        /\ Contains(conns[c].resp.fields.sequences, Demo)

----------------------------------------------------------------------------
(* The library and the files driven through their API by one caller.  ret  *)
(* holds the last call, its result, and in arg what the caller passed and  *)
(* what was there just before the call.                                    *)

StoredActions(name) ==
    IF name = SpaceName
    THEN <<ActionWithTimestamp(MoveMouse(10, 20), 0)>>
    ELSE <<ActionWithTimestamp(Wait(1000), 50), ActionWithTimestamp(ClickMouse("left"), 0)>>

(* Sequences with tags and actions, two of them with names that give the   *)
(* same file name                                                           *)
StoredSequences ==
    {[name |-> n, description |-> "first try", actions |-> StoredActions(n),
      created_at |-> "2025-01-01T00:00:00+00:00", tags |-> <<"work", "daily">>] :
        n \in {Demo, SpaceName, UnderscoreName}}

NotesTxt == <<"n", ".", "t", "x", "t">>

(* File names: those save_all gives to the stored sequences, and one whose *)
(* extension is not json                                                    *)
FileNames == {file_name_of(n) : n \in {Demo, SpaceName}} \cup {NotesTxt}

LibraryInit ==
    /\ recorder = ActionRecorder_new
    /\ player = ActionPlayer_new
    /\ library = ActionLibrary_new
    /\ disk = NoDirectory
    /\ now = 0
    /\ lock = None
    /\ conns = <<>>
    /\ ret = [op |-> "new", res |-> Ok(Unit), arg |-> <<>>]
    /\ session = [log |-> <<>>, base |-> 0, start |-> 0, rejected |-> FALSE]
    /\ run = [loaded |-> None, started |-> FALSE, rets |-> <<>>]
    /\ announced = {}

LibraryFrame == UNCHANGED <<recorder, player, now, lock, conns, session, run, announced>>

CallAddSequence(sequence) ==
    /\ Len(library.sequences) < MaxStored
    /\ library' = add_sequence(library, sequence)
    /\ ret' = [op |-> "add_sequence", res |-> Ok(Unit), arg |-> sequence]
    /\ UNCHANGED disk
    /\ LibraryFrame

CallSaveAll(io) ==
    LET r == save_all(library, disk, io)
    IN  /\ disk' = r.disk
        /\ ret' = [op |-> "save_all", res |-> r.ret, arg |-> <<>>]
        /\ UNCHANGED library
        /\ LibraryFrame

CallLoadAll(entries) ==
    LET r == load_all(library, disk, entries)
    IN  /\ library' = r.self
        /\ ret' = [op |-> "load_all", res |-> r.ret,
                   arg |-> [entries |-> entries, before |-> Len(library.sequences)]]
        /\ UNCHANGED disk
        /\ LibraryFrame

CallDeleteSequence(name, remove_ok) ==
    LET r == delete_sequence(library, disk, name, remove_ok)
    IN  /\ library' = r.self
        /\ disk' = r.disk
        /\ ret' = [op |-> "delete_sequence", res |-> r.ret,
                   arg |-> [name |-> name,
                           matched |-> Len(SelectSeq(library.sequences,
                                                     LAMBDA s : s.name = name)),
                           had_file |-> HasFile(disk, file_name_of(name))]]
        /\ LibraryFrame

(* fs::write fails when the directory is missing, or when the system says so *)
CallSaveToFile(sequence, file_name, write_ok) ==
    LET r == save_to_file(sequence, disk, file_name, write_ok /\ disk.exists)
    IN  /\ disk' = r.disk
        /\ ret' = [op |-> "save_to_file", res |-> r.ret,
                   arg |-> [sequence |-> sequence, file_name |-> file_name]]
        /\ UNCHANGED library
        /\ LibraryFrame

CallLoadFromFile(file_name) ==
    /\ ret' = [op |-> "load_from_file", res |-> load_from_file(disk, file_name),
               arg |-> [file_name |-> file_name,
                        follows_save |-> /\ ret.op = "save_to_file"
                                         /\ IsOk(ret.res)
                                         /\ ret.arg.file_name = file_name]]
    /\ UNCHANGED <<library, disk>>
    /\ LibraryFrame

(* Something other than the library leaves a file that is not a sequence *)
CorruptFile(file_name) ==
    /\ disk.exists
    /\ disk' = fs_write(disk, file_name, Garbage)
    /\ ret' = [op |-> "corrupt", res |-> Ok(Unit), arg |-> file_name]
    /\ UNCHANGED library
    /\ LibraryFrame

LibraryNext ==
    \/ \E sequence \in StoredSequences : CallAddSequence(sequence)
    \/ \E io \in IoOutcomes : CallSaveAll(io)
    \/ \E entries \in Orders(DOMAIN disk.files) : CallLoadAll(entries)
    \/ \E name \in {Demo, SpaceName, UnderscoreName}, remove_ok \in BOOLEAN :
            CallDeleteSequence(name, remove_ok)
    \/ \E sequence \in StoredSequences, file_name \in FileNames \ {file_name_of(Demo)},
          write_ok \in BOOLEAN :
            CallSaveToFile(sequence, file_name, write_ok)
    \/ \E file_name \in FileNames : CallLoadFromFile(file_name)
    \/ \E file_name \in FileNames : CorruptFile(file_name)

LibrarySpec == LibraryInit /\ [][LibraryNext]_vars

----------------------------------------------------------------------------
(* Claims about the library and its files, under LibrarySpec *)

\* C11: a sequence with tags and actions that save_to_file wrote with
\* success and load_from_file then reads from the same path comes back
\* equal in name, description, actions (order and delay_ms), tags and
\* created_at.
C11_RoundTrip ==
    [][(/\ ret.op = "save_to_file" /\ IsOk(ret.res)
        /\ ret'.op = "load_from_file"
        /\ ret'.arg.file_name = ret.arg.file_name) =>
            /\ IsOk(ret'.res)
            /\ ret'.res[2].name = ret.arg.sequence.name
            /\ ret'.res[2].description = ret.arg.sequence.description
            /\ ret'.res[2].actions = ret.arg.sequence.actions
            /\ ret'.res[2].tags = ret.arg.sequence.tags
            /\ ret'.res[2].created_at = ret.arg.sequence.created_at]_vars

C11_Witness ==
    /\ ret.op = "load_from_file" /\ IsOk(ret.res)
    /\ ret.arg.follows_save
    /\ Len(ret.res[2].tags) >= 2
    /\ Len(ret.res[2].actions) >= 2

(* The files of a listing that load_all takes: extension json and text that *)
(* parses as a sequence                                                     *)
ParsingJsonFiles(d, entries) ==
    SelectSeq(entries, LAMBDA f : extension(f) = Some(JsonExt) /\ IsOk(from_str(d.files[f])))

\* C12: load_all on an existing directory succeeds whatever the files hold,
\* and the collection afterwards is exactly the sequences parsed from the
\* .json files that parse, in the order the directory lists them, with
\* nothing kept from before the call.
C12_LoadAllSkipsCorrupt ==
    [][(ret'.op = "load_all" /\ disk.exists) =>
            LET good == ParsingJsonFiles(disk, ret'.arg.entries)
            IN  /\ IsOk(ret'.res)
                /\ library'.sequences =
                        [i \in 1..Len(good) |-> from_str(disk.files[good[i]])[2]]]_vars

C12_Witness ==
    /\ ret.op = "load_all" /\ IsOk(ret.res)
    /\ ret.arg.before = MaxStored
    /\ \E f, g \in DOMAIN disk.files :
            /\ extension(f) = Some(JsonExt) /\ disk.files[f] = Garbage
            /\ extension(g) = Some(JsonExt) /\ IsOk(from_str(disk.files[g]))
    /\ Len(library.sequences) = 1

\* C20: delete_sequence(name) removes every entry of that name and keeps the
\* others in order; the file name.json (spaces as underscores) is gone
\* afterwards and no other file is touched; the call fails only when that
\* file exists and cannot be removed, so it succeeds when there is no such
\* entry or no such file.
C20_DeleteSequence ==
    [][ret'.op = "delete_sequence" =>
            LET name == ret'.arg.name
                file_name == replace_space(name) \o <<".", "j", "s", "o", "n">>
            IN  /\ \A i \in DOMAIN library'.sequences : library'.sequences[i].name # name
                /\ library'.sequences = SelectSeq(library.sequences, LAMBDA s : s.name # name)
                /\ IsOk(ret'.res) =>
                        /\ ~HasFile(disk', file_name)
                        /\ disk'.exists = disk.exists
                        /\ \A f \in DOMAIN disk.files \ {file_name} :
                                HasFile(disk', f) /\ disk'.files[f] = disk.files[f]
                /\ IsErr(ret'.res) => HasFile(disk, file_name) /\ disk' = disk
                /\ ~HasFile(disk, file_name) => IsOk(ret'.res) /\ disk' = disk]_vars

C20_Witness ==
    /\ ret.op = "delete_sequence" /\ IsOk(ret.res)
    /\ ret.arg.name = SpaceName
    /\ ret.arg.matched = 2
    /\ ret.arg.had_file
    /\ Len(library.sequences) = 0
    /\ DOMAIN disk.files = {NotesTxt}

----------------------------------------------------------------------------
(* Further claims about the player, under PlayerSpec *)

\* C18: after any calls of load_sequence, start_playback, next_action and
\* stop_playback the cursor is between 0 and the number of actions of the
\* loaded sequence, and is 0 when no sequence is loaded.
C18_CursorInvariant ==
    /\ player.current_index >= 0
    /\ IsSome(player.current_sequence) =>
            player.current_index <= Len(Unwrap(player.current_sequence).actions)
    /\ ~IsSome(player.current_sequence) => player.current_index = 0

C18_Witness ==
    /\ ret.op = "next_action" /\ ret.res = None
    /\ IsSome(player.current_sequence)
    /\ Len(Unwrap(player.current_sequence).actions) = MaxLen
    /\ player.current_index = MaxLen
    /\ Len(run.rets) = MaxLen + 2

\* C19: load_sequence from any player state leaves the player holding the
\* given sequence with cursor 0 and not playing; until start_playback
\* succeeds, next_action returns nothing and changes nothing.
C19_LoadResetsPlayer ==
    [][/\ ret'.op = "load_sequence" =>
            /\ player'.current_sequence = run'.loaded
            /\ IsSome(player'.current_sequence)
            /\ player'.current_index = 0
            /\ ~player'.is_playing
       /\ (ret'.op = "next_action" /\ IsSome(run.loaded) /\ ~run.started) =>
            /\ ret'.res = None
            /\ player' = player
            /\ player'.current_sequence = run.loaded
            /\ player'.current_index = 0
            /\ ~player'.is_playing]_vars

C19_Witness ==
    /\ ret.op = "next_action" /\ ret.res = None
    /\ IsSome(run.loaded) /\ ~run.started
    /\ player.current_sequence = run.loaded
    /\ Len(Unwrap(player.current_sequence).actions) >= 1
    /\ player.current_index = 0
    /\ ~player.is_playing

----------------------------------------------------------------------------
(* The daemon serving one client that sends one request after another; the *)
(* file system may refuse what save_all and delete_sequence ask of it.  ret *)
(* holds the request the client sent last.                                  *)

(* Requests whose type is missing, or is not a string *)
UntypedPayloads ==
    {Request(JNull, JStr(Demo), JNull, JNull, JNull),
     Request(JNum(7), JNull, JNull, JNull, JNull)}

SoloPayloads == Payloads \cup UntypedPayloads

SoloInit ==
    /\ disk \in InitialDisks
    /\ \E entries \in Orders(DOMAIN disk.files) :
            LET state == DaemonState_new(disk, entries)
            IN  /\ recorder = state.recorder
                /\ player = state.player
                /\ library = state.library
    /\ now = 0
    /\ lock = None
    /\ conns = [c \in {1} |-> FreeConn]
    /\ ret = [op |-> "new", res |-> InvalidJson]
    /\ session = [log |-> <<>>, base |-> 0, start |-> 0, rejected |-> FALSE]
    /\ run = [loaded |-> None, started |-> FALSE, rets |-> <<>>]
    /\ announced = {}

SoloRead(c, payload) ==
    /\ Within(payload, MaxStored)
    /\ Read(c, payload)
    /\ ret' = [op |-> "request", res |-> payload]

SoloNext ==
    \/ \E c \in DOMAIN conns : Accept(c)
    \/ \E c \in DOMAIN conns, payload \in SoloPayloads : SoloRead(c, payload)
    \/ \E c \in DOMAIN conns, utc_now \in UtcTimes, t \in DaemonInstants :
            HandleStartRecording(c, utc_now, t)
    \/ \E c \in DOMAIN conns : HandleStopRecording(c)
    \/ \E c \in DOMAIN conns : HandleStopAdd(c)
    \/ \E c \in DOMAIN conns, io \in IoOutcomes : HandleStopSave(c, io)
    \/ \E c \in DOMAIN conns, t \in DaemonInstants : HandleRecordAction(c, t)
    \/ \E c \in DOMAIN conns : HandleIsRecording(c)
    \/ \E c \in DOMAIN conns : HandleLoadLookup(c)
    \/ \E c \in DOMAIN conns : HandleLoadIntoPlayer(c)
    \/ \E c \in DOMAIN conns : HandlePlaySequence(c)
    \/ \E c \in DOMAIN conns : HandleListSequences(c)
    \/ \E c \in DOMAIN conns, remove_ok \in BOOLEAN : HandleDeleteSequence(c, remove_ok)
    \/ \E c \in DOMAIN conns, ok \in BOOLEAN : HandleExternal(c, ok)
    \/ \E c \in DOMAIN conns : WriteResponse(c)

SoloSpec == SoloInit /\ [][SoloNext]_vars

(* The command names of handle_request *)
DaemonCommands ==
    {"run_command", "move_mouse", "click_mouse", "mouse_down", "mouse_up", "scroll",
     "get_mouse_position", "type_text", "press_key", "key_down", "key_up",
     "is_process_running", "is_application_visible", "launch_application",
     "focus_window", "list_windows", "find_window", "maximize_window",
     "minimize_window", "close_window", "move_resize_window",
     "open_or_focus_application", "start_recording", "stop_recording",
     "record_action", "is_recording", "load_sequence", "play_sequence",
     "list_sequences", "delete_sequence", "show_notification", "connect_to_service",
     "process_mcp", "process_command", "recognize_voice", "speak", "ping"}

(* The step in which connection c's task has read its request and either   *)
(* answered it or entered a handler                                         *)
HasRead(c) == conns[c].pc = "reading" /\ conns'[c].pc # "reading"

----------------------------------------------------------------------------
(* Claims about the daemon's responses, under SoloSpec *)

\* C13: in every state the dispatcher's commands can reach, no two sequences
\* of the library's in-memory collection have the same name.
C13_UniqueByName ==
    \A i, j \in DOMAIN library.sequences :
        i # j => library.sequences[i].name # library.sequences[j].name

\* C14: when save_all fails while stop_recording is handled, so that the
\* directory is not left as a complete save would leave it, the response
\* has status error.
C14_SaveFailureReported ==
    [][\A c \in DOMAIN conns :
            (/\ conns[c].pc = "stop_save"
             /\ conns'[c].pc = "writing"
             /\ disk' # save_all(library, disk,
                                 [mkdir_ok |-> TRUE,
                                  writes_ok |-> Len(library.sequences)]).disk) =>
                conns'[c].resp.status = "error"]_vars

\* C15: a request that is JSON but whose type is missing, is not a string or
\* is no command name gets an error response, and recorder, player and
\* library stay as they were.
C15_UnknownTypeRefused ==
    [][\A c \in DOMAIN conns :
            (/\ HasRead(c)
             /\ ret'.res.valid
             /\ \/ ret'.res.type[1] # "str"
                \/ ret'.res.type[2] \notin DaemonCommands) =>
                /\ conns'[c].pc = "writing"
                /\ conns'[c].resp.status = "error"
                /\ recorder' = recorder
                /\ player' = player
                /\ library' = library]_vars

C15_Witness ==
    /\ ret.op = "request" /\ ret.res.valid /\ ret.res.type = JNum(7)
    /\ conns[1].pc = "writing" /\ conns[1].resp.status = "error"
    /\ recorder.is_recording
    /\ Len(library.sequences) >= 1

\* C16: a payload that is not JSON is answered with an error response by
\* the connection task itself: it enters no handler, the lock is not taken,
\* and recorder, player and library stay as they were.
C16_InvalidJsonRefused ==
    [][\A c \in DOMAIN conns :
            (HasRead(c) /\ ~ret'.res.valid) =>
                /\ conns'[c].pc = "writing"
                /\ conns'[c].resp.status = "error"
                /\ conns'[c].resp.fields.message[1] = "Invalid JSON: "
                /\ lock' = lock
                /\ recorder' = recorder
                /\ player' = player
                /\ library' = library]_vars

C16_Witness ==
    /\ ret.op = "request" /\ ~ret.res.valid
    /\ conns[1].pc = "writing" /\ conns[1].resp.status = "error"
    /\ recorder.is_recording
    /\ Len(library.sequences) >= 1

----------------------------------------------------------------------------
(* The daemon under fair scheduling: a task that can run is run, and a    *)
(* task that waits for the mutex gets it if it is free again and again.    *)

(* The steps of connection c's task that start by taking the mutex *)
TakesLock(c) ==
    \/ \E utc_now \in UtcTimes, t \in DaemonInstants : HandleStartRecording(c, utc_now, t)
    \/ HandleStopRecording(c)
    \/ \E t \in DaemonInstants : HandleRecordAction(c, t)
    \/ HandleIsRecording(c)
    \/ HandleLoadLookup(c)
    \/ HandleLoadIntoPlayer(c)
    \/ HandlePlaySequence(c)
    \/ HandleListSequences(c)
    \/ HandleDeleteSequence(c, TRUE)

(* The steps of connection c's task that wait for nothing *)
RunsOn(c) ==
    \/ HandleStopAdd(c)
    \/ HandleStopSave(c, IoGranted)
    \/ \E ok \in BOOLEAN : HandleExternal(c, ok)
    \/ WriteResponse(c)

FairScheduling == \A c \in Conns : SF_vars(TakesLock(c)) /\ WF_vars(RunsOn(c))

(* Requests of the handlers that lock once, twice, or hold the lock over  *)
(* several calls, and of the paths that never lock                         *)
FairPayloads ==
    {InvalidJson, Typed("move_mouse"), Typed("stop_recording"), Typed("play_sequence"),
     Request(JStr("start_recording"), JStr(Demo), JNull, JNull, JNull),
     Request(JStr("load_sequence"), JStr(Demo), JNull, JNull, JNull),
     Request(JStr("delete_sequence"), JStr(Demo), JNull, JNull, JNull)}

FairNext ==
    \/ \E c \in DOMAIN conns : Accept(c)
    \/ \E c \in DOMAIN conns, payload \in FairPayloads : ReadRequest(c, payload)
    \/ \E c \in DOMAIN conns, utc_now \in UtcTimes, t \in DaemonInstants :
            HandleStartRecording(c, utc_now, t)
    \/ \E c \in DOMAIN conns : HandleStopRecording(c)
    \/ \E c \in DOMAIN conns : HandleStopAdd(c)
    \/ \E c \in DOMAIN conns : HandleStopSave(c, IoGranted)
    \/ \E c \in DOMAIN conns : HandleLoadLookup(c)
    \/ \E c \in DOMAIN conns : HandleLoadIntoPlayer(c)
    \/ \E c \in DOMAIN conns : HandlePlaySequence(c)
    \/ \E c \in DOMAIN conns : HandleDeleteSequence(c, TRUE)
    \/ \E c \in DOMAIN conns, ok \in BOOLEAN : HandleExternal(c, ok)
    \/ \E c \in DOMAIN conns : WriteResponse(c)

FairSpec == Init /\ [][FairNext]_vars /\ FairScheduling

(* Connection c's task has read a request that handle_request is handling *)
InHandler(c) == conns[c].pc \in {"lock_wait", "relock_wait", "stop_add", "stop_save", "external"}

----------------------------------------------------------------------------
(* Further claims about the library and its files *)

\* C21: load_all called when the library directory does not exist returns
\* Ok and leaves the in-memory collection empty, whatever it held before.
C21_LoadAllWithoutDirectory ==
    [][(ret'.op = "load_all" /\ ~disk.exists) =>
            /\ IsOk(ret'.res)
            /\ library'.sequences = <<>>]_vars

(* The library and its directory driven only through add_sequence,         *)
(* delete_sequence, save_all and load_all, starting with no directory      *)
StoreNext ==
    \/ \E sequence \in StoredSequences : CallAddSequence(sequence)
    \/ \E io \in IoOutcomes : CallSaveAll(io)
    \/ \E entries \in Orders(DOMAIN disk.files) : CallLoadAll(entries)
    \/ \E name \in {Demo, SpaceName, UnderscoreName}, remove_ok \in BOOLEAN :
            CallDeleteSequence(name, remove_ok)

StoreSpec == LibraryInit /\ [][StoreNext]_vars

\* C22: right after a successful save_all, every in-memory sequence has its
\* file name.json (spaces as underscores) in the directory, and every file
\* in the directory is the file of some in-memory sequence.
C22_FilesMatchMemory ==
    (ret.op = "save_all" /\ IsOk(ret.res)) =>
        /\ \A i \in DOMAIN library.sequences :
                HasFile(disk, file_name_of(library.sequences[i].name))
        /\ \A f \in DOMAIN disk.files :
                \E i \in DOMAIN library.sequences :
                    file_name_of(library.sequences[i].name) = f

----------------------------------------------------------------------------
(* One client recording a session: start_recording with a name, with an    *)
(* empty name or without one, the pointer primitives, record_action and    *)
(* stop_recording                                                          *)

EmptyName == <<>>

SessionPayloads ==
    {Request(JStr("start_recording"), n, JNull, JNull, JNull) :
        n \in {JNull, JStr(Demo), JStr(EmptyName)}}
    \cup {Typed("move_mouse"), Typed("click_mouse"), Typed("stop_recording"),
          Request(JStr("record_action"), JNull, JNull, JStr("move_mouse"), JNum(10))}

SessionNext ==
    \/ \E c \in DOMAIN conns : Accept(c)
    \/ \E c \in DOMAIN conns, payload \in SessionPayloads : SoloRead(c, payload)
    \/ \E c \in DOMAIN conns, utc_now \in UtcTimes, t \in DaemonInstants :
            HandleStartRecording(c, utc_now, t)
    \/ \E c \in DOMAIN conns : HandleStopRecording(c)
    \/ \E c \in DOMAIN conns : HandleStopAdd(c)
    \/ \E c \in DOMAIN conns, io \in IoOutcomes : HandleStopSave(c, io)
    \/ \E c \in DOMAIN conns, t \in DaemonInstants : HandleRecordAction(c, t)
    \/ \E c \in DOMAIN conns, ok \in BOOLEAN : HandleExternal(c, ok)
    \/ \E c \in DOMAIN conns : WriteResponse(c)

SessionSpec == SoloInit /\ [][SessionNext]_vars

\* C23: every sequence that start_recording and stop_recording put in the
\* library has a non-empty name, whatever the request's name field was.
C23_StoredNameNonEmpty ==
    \A i \in DOMAIN library.sequences : library.sequences[i].name # EmptyName

(* The arm of a primitive command returns on connection c *)
PrimitiveDone(c) == conns[c].pc = "external" /\ conns'[c].pc = "writing"

----------------------------------------------------------------------------
(* The lock and the external collaborators, under Spec *)

\* C25: no task holds the shared lock while it calls an external
\* collaborator: a task that is in such a call does not own the lock and
\* can finish the call whoever owns it, and a task that owns the lock is in
\* the recorder and library steps of stop_recording, never in such a call.
C25_NoLockAcrossExternalCall ==
    \A c \in DOMAIN conns :
        /\ conns[c].pc = "external" =>
                /\ lock # Some(c)
                /\ ENABLED HandleExternal(c, TRUE)
        /\ lock = Some(c) => conns[c].pc \in {"stop_add", "stop_save"}

C25_Witness ==
    /\ conns[1].pc = "external"
    /\ lock = Some(2)

----------------------------------------------------------------------------
(* Further claims about the recorder, under RecorderSpec *)

\* C26: stop_recording while Recording returns the live sequence, which has
\* the name and description given at the start_recording that opened it,
\* and leaves the recorder Idle with no live sequence; a start_recording
\* that follows it succeeds and opens a sequence without actions.
C26_StopThenStart ==
    [][/\ (ret'.op = "start_recording" /\ IsOk(ret'.res)) =>
            /\ Unwrap(recorder'.current_sequence).name = ret'.arg.name
            /\ Unwrap(recorder'.current_sequence).description = ret'.arg.description
       /\ (recorder.is_recording /\ recorder'.is_recording) =>
            /\ Unwrap(recorder'.current_sequence).name
                    = Unwrap(recorder.current_sequence).name
            /\ Unwrap(recorder'.current_sequence).description
                    = Unwrap(recorder.current_sequence).description
       /\ (ret'.op = "stop_recording" /\ recorder.is_recording) =>
            /\ ret'.res = Ok(Unwrap(recorder.current_sequence))
            /\ ~recorder'.is_recording
            /\ recorder'.current_sequence = None
       /\ (ret.op = "stop_recording" /\ IsOk(ret.res) /\ ret'.op = "start_recording") =>
            /\ IsOk(ret'.res)
            /\ recorder'.is_recording
            /\ Unwrap(recorder'.current_sequence).actions = <<>>]_vars

C26_Witness ==
    /\ ret.op = "stop_recording" /\ IsOk(ret.res)
    /\ ret.res[2].name = SpaceName
    /\ Len(ret.res[2].actions) >= 1
    /\ ~recorder.is_recording
    /\ recorder.current_sequence = None

----------------------------------------------------------------------------
(* Further claims about the player, under PlayerSpec.  ret.from is the     *)
(* player as the call found it.                                            *)

\* C27: start_playback while Playing, at whatever cursor, succeeds, puts the
\* cursor back to 0 and leaves the player Playing the same sequence; the
\* next_action calls that follow return the actions of the sequence from
\* the first one, in order, each moving the cursor by one.
C27_RestartWhilePlaying ==
    [][/\ (ret'.op = "start_playback" /\ player.is_playing) =>
            /\ IsOk(ret'.res)
            /\ player'.current_index = 0
            /\ player'.is_playing
            /\ player'.current_sequence = player.current_sequence
            /\ run'.started /\ run'.rets = <<>>
       /\ (ret'.op = "next_action" /\ run.started /\ Len(run.rets) <= MaxLen) =>
            LET actions == Unwrap(player.current_sequence).actions
                k == Len(run.rets)
            IN  /\ player.current_index = IF k <= Len(actions) THEN k ELSE Len(actions)
                /\ ret'.res = IF k < Len(actions) THEN Some(actions[k + 1]) ELSE None]_vars

C27_Witness ==
    /\ ret.op = "start_playback" /\ IsOk(ret.res)
    /\ ret.from.is_playing
    /\ ret.from.current_index = 1
    /\ Len(Unwrap(player.current_sequence).actions) = MaxLen
    /\ player.is_playing
    /\ player.current_index = 0

\* C28: stop_playback from any state leaves the player not playing with its
\* cursor at 0 and the loaded sequence, if there is one, still loaded; an
\* Empty player stays Empty.
C28_StopPlayback ==
    [][ret'.op = "stop_playback" =>
            /\ ~player'.is_playing
            /\ player'.current_index = 0
            /\ player'.current_sequence = player.current_sequence]_vars

C28_Witness ==
    /\ ret.op = "stop_playback"
    /\ ret.from.is_playing
    /\ ret.from.current_index >= 1
    /\ IsSome(player.current_sequence)
    /\ player.current_sequence = ret.from.current_sequence
    /\ ~player.is_playing
    /\ player.current_index = 0

\* C29: next_action on a player that is not Playing returns nothing and
\* leaves the cursor, the loaded sequence and is_playing as they were.
C29_NextActionWhenNotPlaying ==
    [][(ret'.op = "next_action" /\ ~player.is_playing) =>
            /\ ret'.res = None
            /\ player'.current_index = player.current_index
            /\ player'.current_sequence = player.current_sequence
            /\ player'.is_playing = player.is_playing]_vars

C29_Witness ==
    /\ ret.op = "next_action" /\ ret.res = None
    /\ ~ret.from.is_playing
    /\ ret.from.current_index = MaxLen
    /\ player = ret.from

----------------------------------------------------------------------------
(* Looking sequences up in a library that holds namesakes *)

(* The stored sequences and a second, different sequence named demo *)
NamesakeSequences ==
    StoredSequences \cup
    {[name |-> Demo, description |-> "second try",
      actions |-> <<ActionWithTimestamp(MoveMouse(10, 20), 0)>>,
      created_at |-> "2025-01-02T00:00:00+00:00", tags |-> <<>>]}

CallGetSequence(name) ==
    /\ ret' = [op |-> "get_sequence", res |-> get_sequence(library, name), arg |-> name]
    /\ UNCHANGED <<library, disk>>
    /\ LibraryFrame

CallListSequences ==
    /\ ret' = [op |-> "list_sequences", res |-> list_sequences(library), arg |-> <<>>]
    /\ UNCHANGED <<library, disk>>
    /\ LibraryFrame

LookupNext ==
    \/ \E sequence \in NamesakeSequences : CallAddSequence(sequence)
    \/ \E name \in {Demo, SpaceName, UnderscoreName} : CallGetSequence(name)
    \/ CallListSequences
    \/ \E name \in {Demo, SpaceName, UnderscoreName}, remove_ok \in BOOLEAN :
            CallDeleteSequence(name, remove_ok)

LookupSpec == LibraryInit /\ [][LookupNext]_vars

\* C30: add_sequence puts the sequence after those already held, so the
\* collection is in insertion order; get_sequence(name) returns the first
\* added of the sequences with that name (nothing when there is none), and
\* list_sequences returns the name of every sequence, namesakes included,
\* in insertion order.
C30_FirstAddedWins ==
    [][/\ ret'.op = "add_sequence" =>
            library'.sequences = Append(library.sequences, ret'.arg)
       /\ ret'.op = "get_sequence" =>
            LET sequences == library.sequences
            IN  /\ ret'.res = None =>
                        \A i \in DOMAIN sequences : sequences[i].name # ret'.arg
                /\ ret'.res # None =>
                        \E i \in DOMAIN sequences :
                            /\ ret'.res = Some(sequences[i])
                            /\ sequences[i].name = ret'.arg
                            /\ \A j \in 1..(i - 1) : sequences[j].name # ret'.arg
       /\ ret'.op = "list_sequences" =>
            /\ Len(ret'.res) = Len(library.sequences)
            /\ \A i \in DOMAIN library.sequences :
                    ret'.res[i] = library.sequences[i].name]_vars

C30_Witness ==
    /\ ret.op = "get_sequence" /\ ret.arg = Demo
    /\ Len(library.sequences) = 2
    /\ library.sequences[1].name = Demo
    /\ library.sequences[2].name = Demo
    /\ library.sequences[1] # library.sequences[2]
    /\ ret.res = Some(library.sequences[1])

----------------------------------------------------------------------------
(* Tags: a new ActionSequence and add_tag calls on it.  ret.res is the     *)
(* sequence the caller holds, ret.calls the tags it has passed to add_tag  *)
(* so far.                                                                 *)

MaxTagCalls == 3

Tags == {"work", "daily", "tmp"}

TagInit ==
    /\ recorder = ActionRecorder_new
    /\ player = ActionPlayer_new
    /\ library = ActionLibrary_new
    /\ disk = NoDirectory
    /\ now = 0
    /\ lock = None
    /\ conns = <<>>
    /\ \E name \in Names, description \in Descriptions, utc_now \in UtcTimes :
            ret = [op |-> "new", res |-> ActionSequence_new(name, description, utc_now),
                   arg |-> "", calls |-> <<>>]
    /\ session = [log |-> <<>>, base |-> 0, start |-> 0, rejected |-> FALSE]
    /\ run = [loaded |-> None, started |-> FALSE, rets |-> <<>>]
    /\ announced = {}

CallNew(name, description, utc_now) ==
    /\ ret' = [op |-> "new", res |-> ActionSequence_new(name, description, utc_now),
               arg |-> "", calls |-> <<>>]
    /\ UNCHANGED <<recorder, player, library, disk, now, lock, conns, session, run,
                   announced>>

CallAddTag(tag) ==
    /\ Len(ret.calls) < MaxTagCalls
    /\ ret' = [op |-> "add_tag", res |-> add_tag(ret.res, tag), arg |-> tag,
               calls |-> Append(ret.calls, tag)]
    /\ UNCHANGED <<recorder, player, library, disk, now, lock, conns, session, run,
                   announced>>

TagNext ==
    \/ \E name \in Names, description \in Descriptions, utc_now \in UtcTimes :
            CallNew(name, description, utc_now)
    \/ \E tag \in Tags : CallAddTag(tag)

TagSpec == TagInit /\ [][TagNext]_vars

(* The elements of calls, each at the place of its first occurrence *)
FirstOccurrences(calls) ==
    LET firsts == {i \in DOMAIN calls : \A j \in 1..(i - 1) : calls[j] # calls[i]}
        RECURSIVE pick(_)
        pick(i) == IF i > Len(calls) THEN <<>>
                   ELSE (IF i \in firsts THEN <<calls[i]>> ELSE <<>>) \o pick(i + 1)
    IN  pick(1)

\* C31: add_tag with a tag already present leaves the sequence as it was;
\* after any add_tag calls on a new sequence the tags hold no duplicate and
\* are the tags passed, each at the place of its first insertion; no other
\* field of the sequence changes.
C31_AddTagIdempotent ==
    [][ret'.op = "add_tag" =>
            /\ Contains(ret.res.tags, ret'.arg) => ret'.res = ret.res
            /\ \A i, j \in DOMAIN ret'.res.tags :
                    i # j => ret'.res.tags[i] # ret'.res.tags[j]
            /\ ret'.res.tags = FirstOccurrences(ret'.calls)
            /\ ret'.res = [ret.res EXCEPT !.tags = ret'.res.tags]]_vars

C31_Witness ==
    /\ ret.op = "add_tag"
    /\ ret.calls = <<"work", "daily", "work">>
    /\ ret.res.tags = <<"work", "daily">>

----------------------------------------------------------------------------
(* The recorder's fields, under RecorderSpec *)

\* C32: in every state reached through start_recording, record_action and
\* stop_recording, is_recording holds exactly when a live sequence is
\* present and exactly when a delay baseline is present; no call returns
\* the error of a Recording state without a sequence.
C32_RecorderConsistent ==
    /\ recorder.is_recording <=> IsSome(recorder.current_sequence)
    /\ recorder.is_recording <=> IsSome(recorder.last_action_time)
    /\ ret.res \notin {Err(NoActiveSequence), Err(NoSequenceToSave)}

C32_Witness ==
    /\ ret.op = "record_action" /\ IsOk(ret.res)
    /\ session.rejected
    /\ recorder.is_recording
    /\ IsSome(recorder.current_sequence)
    /\ IsSome(recorder.last_action_time)

----------------------------------------------------------------------------
(* The player behind the dispatcher, under Spec *)

----------------------------------------------------------------------------
(* What delete_sequence leaves alone, under StoreSpec *)

\* C34: delete_sequence(name) leaves the sequences of every other name in
\* memory, in order, and on disk: each sequence still in memory whose file
\* existed before the call still has its file, with the same content.
C34_DeleteLeavesOthers ==
    [][ret'.op = "delete_sequence" =>
            /\ library'.sequences =
                    SelectSeq(library.sequences, LAMBDA s : s.name # ret'.arg.name)
            /\ \A i \in DOMAIN library'.sequences :
                    LET f == file_name_of(library'.sequences[i].name)
                    IN  HasFile(disk, f) =>
                            HasFile(disk', f) /\ disk'.files[f] = disk.files[f]]_vars

----------------------------------------------------------------------------
(* The player's own copy of the loaded sequence, under SoloSpec *)

(* The task of connection c takes a step of a handler of one of the types *)
StepOf(c, types) ==
    /\ conns[c].pc \notin {"free", "reading", "writing"}
    /\ TypeOf(c) \in types
    /\ conns'[c] # conns[c]

\* C35: the player holds its own copy of the loaded sequence: no step of a
\* delete_sequence, start_recording, record_action or stop_recording handler
\* changes the player, whatever the library and the recorder do with a
\* sequence of that name; and play_sequence on a player that holds a
\* sequence succeeds, keeps that sequence and leaves the cursor at 0.
C35_PlayerOwnsCopy ==
    [][\A c \in DOMAIN conns :
          /\ StepOf(c, {"delete_sequence", "start_recording", "record_action",
                        "stop_recording"}) => player' = player
          /\ (Handled(c, {"play_sequence"}) /\ IsSome(player.current_sequence)) =>
                /\ conns'[c].resp.status = "success"
                /\ player'.current_sequence = player.current_sequence
                /\ player'.current_index = player.current_index
                /\ player'.is_playing]_vars

C35_Witness ==
    /\ ret.op = "request" /\ ret.res = Typed("play_sequence")
    /\ conns[1].pc = "writing" /\ conns[1].resp.status = "success"
    /\ IsSome(player.current_sequence)
    /\ Unwrap(player.current_sequence).name = Demo
    /\ get_sequence(library, Demo) # player.current_sequence
    /\ player.is_playing

----------------------------------------------------------------------------
(* One client that starts a recording and sends record_action requests,    *)
(* some without an action or with an action type the daemon does not       *)
(* know, while the monotonic clock runs                                    *)

RecordPayloads ==
    {Request(JStr("start_recording"), JStr(Demo), JNull, JNull, JNull),
     Request(JStr("record_action"), JNull, JNull, JStr("move_mouse"), JNum(10)),
     Request(JStr("record_action"), JNull, JNull, JStr("scroll"), JNull),
     Request(JStr("record_action"), JNull, JNull, JNull, JNull),
     Request(JStr("record_action"), JNull, JNull, JNum(7), JNull)}

RecordNext ==
    \/ \E c \in DOMAIN conns : Accept(c)
    \/ \E c \in DOMAIN conns, payload \in RecordPayloads : SoloRead(c, payload)
    \/ \E c \in DOMAIN conns, utc_now \in UtcTimes, t \in Instants :
            HandleStartRecording(c, utc_now, t)
    \/ \E c \in DOMAIN conns, t \in Instants : HandleRecordAction(c, t)
    \/ \E c \in DOMAIN conns : WriteResponse(c)

RecordSpec == SoloInit /\ [][RecordNext]_vars

\* C36: a record_action request whose action field is missing, is not a
\* string or names an unsupported action type gets an error response and
\* leaves the recorder as it was, delay baseline included; the delay of the
\* next action recorded is the whole milliseconds from that baseline, which
\* is the last successful record_action or the start, to its own instant.
C36_BadActionChangesNothing ==
    [][\A c \in DOMAIN conns :
          /\ (Handled(c, {"record_action"}) /\ ParseAction(conns[c].req) = None) =>
                /\ conns'[c].resp.status = "error"
                /\ recorder' = recorder
          /\ (/\ Handled(c, {"record_action"})
              /\ ParseAction(conns[c].req) # None
              /\ recorder.is_recording) =>
                LET acts == Unwrap(recorder'.current_sequence).actions
                IN  /\ conns'[c].resp.status = "success"
                    /\ Len(acts) = Len(Unwrap(recorder.current_sequence).actions) + 1
                    /\ acts[Len(acts)].delay_ms =
                            (now' - Unwrap(recorder.last_action_time)) \div TicksPerMs
                    /\ recorder'.last_action_time = Some(now')]_vars

C36_Witness ==
    /\ ret.op = "request"
    /\ ret.res = Request(JStr("record_action"), JNull, JNull, JStr("scroll"), JNull)
    /\ conns[1].pc = "writing" /\ conns[1].resp.status = "error"
    /\ recorder.is_recording
    /\ now >= Unwrap(recorder.last_action_time) + TicksPerMs

----------------------------------------------------------------------------
(* load_sequence of a name the library does not hold, under SoloSpec *)

\* C37: a load_sequence request whose name is not in the library is
\* answered, at its lookup, with the error "Sequence not found: <name>",
\* and the player keeps its loaded sequence, cursor and is_playing flag.
C37_LoadUnknownRefused ==
    [][\A c \in DOMAIN conns :
          (/\ conns[c].pc = "lock_wait"
           /\ TypeOf(c) = "load_sequence"
           /\ conns'[c] # conns[c]
           /\ \A i \in DOMAIN library.sequences : library.sequences[i].name # NameOf(c)) =>
                /\ conns'[c].pc = "writing"
                /\ conns'[c].resp.status = "error"
                /\ conns'[c].resp.fields.message = <<"Sequence not found: ", NameOf(c)>>
                /\ player'.current_sequence = player.current_sequence
                /\ player'.current_index = player.current_index
                /\ player'.is_playing = player.is_playing]_vars

C37_Witness ==
    /\ ret.op = "request"
    /\ ret.res = Request(JStr("load_sequence"), JStr(Demo), JNull, JNull, JNull)
    /\ conns[1].pc = "writing" /\ conns[1].resp.status = "error"
    /\ IsSome(player.current_sequence)
    /\ player.is_playing

----------------------------------------------------------------------------
(* The recorder on a clock that is read in whole milliseconds.             *)
(* session.start is the instant of the start_recording that opened the     *)
(* session, session.base the instant of its last successful call.          *)

WholeMillis == {t \in Instants : t % TicksPerMs = 0}

MillisNext ==
    \/ \E name \in Names, description \in Descriptions, utc_now \in UtcTimes,
          t \in WholeMillis : CallStartRecording(name, description, utc_now, t)
    \/ \E action \in SampleActions, t \in WholeMillis : CallRecordAction(action, t)
    \/ CallStopRecording

MillisSpec == CoreInit /\ [][MillisNext]_vars

RECURSIVE SumDelays(_)
SumDelays(actions) ==
    IF actions = <<>> THEN 0
    ELSE actions[1].delay_ms + SumDelays(Tail(actions))

\* C38: on a clock read in whole milliseconds, while a session is recorded
\* the sum of delay_ms over the actions recorded so far is the time, in
\* milliseconds, from start_recording to the last successful record_action
\* (0 when there is none yet); refused calls in between leave it as it was.
C38_DelaysSumToElapsed ==
    recorder.is_recording =>
        /\ SumDelays(Unwrap(recorder.current_sequence).actions) * TicksPerMs
                = session.base - session.start
        /\ Len(Unwrap(recorder.current_sequence).actions) = 0
                => session.base = session.start

C38_Witness ==
    /\ recorder.is_recording
    /\ ret.op = "start_recording" /\ IsErr(ret.res)
    /\ Len(Unwrap(recorder.current_sequence).actions) >= 2
    /\ Unwrap(recorder.current_sequence).actions[1].delay_ms >= 1
    /\ Unwrap(recorder.current_sequence).actions[2].delay_ms >= 1
    /\ session.base = session.start + 2 * TicksPerMs

----------------------------------------------------------------------------
(* A daemon restart: DaemonState::new on the directory a save_all left *)

Count(sequences, x) == Cardinality({i \in DOMAIN sequences : sequences[i] = x})

(* The two collections hold the same sequences, each as many times *)
SameSequences(a, b) ==
    /\ \A i \in DOMAIN a : Count(a, a[i]) = Count(b, a[i])
    /\ \A i \in DOMAIN b : Count(a, b[i]) = Count(b, b[i])

\* C39: right after a successful save_all into a directory that holds no
\* file but those of the sequences in memory, the library of a restarted
\* daemon holds exactly the sequences that are in memory, each as many
\* times, and get_sequence gives the same answer for every name, whatever
\* the order in which the directory is read.
C39_RestartConsistent ==
    (/\ ret.op = "save_all" /\ IsOk(ret.res)
     /\ \A f \in DOMAIN disk.files :
            \E i \in DOMAIN library.sequences :
                file_name_of(library.sequences[i].name) = f) =>
        \A entries \in Orders(DOMAIN disk.files) :
            LET restarted == DaemonState_new(disk, entries).library
            IN  /\ SameSequences(restarted.sequences, library.sequences)
                /\ \A name \in {Demo, SpaceName, UnderscoreName} :
                        get_sequence(restarted, name) = get_sequence(library, name)

============================================================================
